---- MODULE Spec2Model ----
(***************************************************************************)
(* Model of ai-data-quality-copilot.  The module holds one specification  *)
(* per layer of the program, over one set of variables:                    *)
(*   Spec         detect_anomalies_for_table (monitoring/anomaly_detector) *)
(*   SeveritySpec assign_severity                                          *)
(*   CompareSpec  compare_schemas (monitoring/schema_monitor)              *)
(*   RunSpec      the entry points on the warehouse and the snapshot files *)
(*                up to run_root_cause_analyzer and the full pipeline      *)
(*   SlackSpec    run_slack_alerts (alerts/slack_alerts)                   *)
(*   LineageSpec  get_anomalous_tables and GET /api/lineage                *)
(*   GenSpec      generate_row_count_tests (monitoring/test_generator)     *)
(*   SaveSpec     save steps of runs that share a history file             *)
(*                                                                         *)
(* Numbers.  The program computes in binary floating point; the model      *)
(* computes in exact arithmetic on a fixed-point grid.  A row_count value  *)
(* is a whole number of rows; a null_pct, mean or std value is an integer  *)
(* number of thousandths (0.05 is 50).  For a history h of n values with   *)
(* sum S and sum of squares Q,                                             *)
(*      np.mean(h) = S / n           np.std(h) = sqrt(n*Q - S*S) / n       *)
(* so that, with Dev = n*x - S and Rad = n*Q - S*S,                        *)
(*      z = (x - mean) / std = Dev / sqrt(Rad)                             *)
(*      (x - mean) / mean    = Dev / S.                                    *)
(* Every comparison of the code is made on these integers, exactly.        *)
(* A z-score is the record [num |-> Dev, rad |-> Rad].                     *)
(* Rounded results keep the code's number of decimals as integers:         *)
(* z_score in thousandths (round(z, 3)), pct_change in ten-thousandths     *)
(* (round(p, 4)).  The Anomaly fields baseline_mean, baseline_std and      *)
(* detected_at are copies of values the detector never reads back and are  *)
(* left out of the record.                                                 *)
(***************************************************************************)
EXTENDS Integers, Sequences, FiniteSets, TLC

VARIABLES
    table,            \* detect_anomalies_for_table: the table argument
    current_metrics,  \* ... the current_metrics dict, in insertion order
    history_df,       \* ... the history DataFrame: hist_col -> series
    idx,              \* position of the for loop over current_metrics.items()
    anomalies,        \* the local list of Anomaly records
    pc,               \* "loop" | "returned" | "raised" | "classify" | "classified"
                      \* | "compare" | "compared" | "generate" | "generated"
                      \* | "readers" | "graph_read" | "api_read" | "both_read"
                      \* | "saving"
    z_in,             \* assign_severity: the z_score argument
    metric_in,        \* assign_severity: the metric argument
    severity_out,     \* assign_severity: the returned band
    schema_table,     \* compare_schemas: the table argument
    baseline,         \* compare_schemas: the baseline dict, column -> type
    current,          \* compare_schemas: the current dict, column -> type
    drifts,           \* compare_schemas: the returned list of SchemaDrift
    warehouse,        \* data/warehouse.duckdb: table -> [schema, metrics]
    daily_files,      \* data/snapshots/{table}_daily.csv: table -> history
    schema_baseline,  \* data/snapshots/schema_baseline.csv: its rows, or absent
    anomaly_history,  \* data/snapshots/anomaly_history.csv: its rows
    schema_history,   \* data/snapshots/schema_history.csv: its rows
    calls,            \* the entry points called so far, the running one last
    run_pc,           \* position of the running entry point
    run_idx,          \* position of the for loop over TABLES_TO_MONITOR
    visited,          \* the tables this loop has taken so far, in order
    all_anomalies,    \* run_anomaly_detector: all_anomalies
    all_drifts,       \* run_schema_monitor: all_drifts
    llm_calls,        \* run_root_cause_analyzer: the arguments of the
                      \* analyze_with_llm calls made so far
    reports,          \* run_root_cause_analyzer: the list it returns
    reports_file,     \* data/root_cause_reports.json: its list, or absent
    webhook,          \* slack_alerts: SLACK_WEBHOOK_URL is set
    posts,            \* the requests.post calls of the running entry point
    completed,        \* the stages the running entry point has completed
    tests,            \* generate_row_count_tests: the list it returns
    anomalous_tables, \* lineage_graph.get_anomalous_tables: the dict it returns
    anomalous,        \* /api/lineage: the anomalous dict it builds
    savers            \* the runs whose save step is in flight: run ->
                      \* [entry, new, pc, existing, overlapped]

detectVars == <<table, current_metrics, history_df, idx, anomalies, pc,
                z_in, metric_in, severity_out>>

schemaVars == <<schema_table, baseline, current, drifts>>

runVars == <<warehouse, daily_files, schema_baseline, anomaly_history,
             schema_history, calls, run_pc, run_idx, visited, all_anomalies,
             all_drifts, llm_calls, reports, reports_file, webhook, posts,
             completed>>

\* the state of the reporting and alerting stages
alertVars == <<reports, reports_file, webhook, posts>>

\* the test generator, the readers of the reports file, concurrent saves
sideVars == <<tests, anomalous_tables, anomalous, savers>>

vars == <<detectVars, schemaVars, runVars, sideVars>>

\* no call of detect_anomalies_for_table or assign_severity
DetectIdle ==
    /\ table = "none"
    /\ current_metrics = <<>>
    /\ history_df = <<>>
    /\ idx = 1
    /\ anomalies = <<>>
    /\ z_in = [num |-> 0, rad |-> 1]
    /\ metric_in = "none"
    /\ severity_out = "none"

\* no call of compare_schemas
SchemaIdle ==
    /\ schema_table = "none"
    /\ baseline = <<>>
    /\ current = <<>>
    /\ drifts = <<>>

\* no call of the test generator or of a reader, no save in flight
SideIdle ==
    /\ tests = <<>>
    /\ anomalous_tables = <<>>
    /\ anomalous = <<>>
    /\ savers = <<>>

\* no entry point called
RunIdle ==
    /\ warehouse = <<>>
    /\ daily_files = <<>>
    /\ schema_baseline = <<>>
    /\ anomaly_history = <<>>
    /\ schema_history = <<>>
    /\ calls = <<>>
    /\ run_pc = "none"
    /\ run_idx = 1
    /\ visited = <<>>
    /\ all_anomalies = <<>>
    /\ all_drifts = <<>>
    /\ llm_calls = <<>>
    /\ reports = <<>>
    /\ reports_file = <<>>
    /\ webhook = FALSE
    /\ posts = <<>>
    /\ completed = <<>>

(***************************************************************************)
(* Program constants.                                                      *)
(***************************************************************************)
ZSCORE_THRESHOLD == 3

MIN_HISTORY_DAYS == 7

ROLLING_WINDOW == 30

\* z_score = 999.0, in thousandths
SENTINEL_Z == 999000

\* hist_mean < 0.01, in thousandths
NULL_BASELINE_MAX == 10

\* current_value > 0.05, in thousandths
NULL_FIRE_MIN == 50

\* current_value > 0.20, in thousandths
NULL_CRITICAL_MIN == 200

\* pct_diff > 0.20, in percent
MEAN_FIRE_PCT == 20

\* pct_diff > 0.50, in percent
MEAN_CRITICAL_PCT == 50

\* pct_diff < -0.15, in percent
ROW_FIRE_PCT == 15

\* pct_diff < -0.30, in percent
ROW_CRITICAL_PCT == 30

\* abs(pct_change) < 0.05, in percent
NULL_LOW_MIN_PCT == 5

(***************************************************************************)
(* Bounds of the model.                                                    *)
(***************************************************************************)
\* older rows in front of a history: 0..MaxPad
MaxPad == 1

\* keys of a multi-key snapshot: 2..MaxKeys
MaxKeys == 2

\* z-scores given to assign_severity: -MaxZTenths/10 .. MaxZTenths/10
\* number of column names of the schemas compared
MaxColumns == 3

MaxZTenths == 70

(***************************************************************************)
(* Arithmetic.                                                             *)
(***************************************************************************)
Abs(x) == IF x < 0 THEN -x ELSE x

Sign(x) == IF x < 0 THEN -1 ELSE IF x > 0 THEN 1 ELSE 0

RECURSIVE SumTo(_, _)
SumTo(s, i) == IF i = 0 THEN 0 ELSE s[i] + SumTo(s, i - 1)

RECURSIVE SumSqTo(_, _)
SumSqTo(s, i) == IF i = 0 THEN 0 ELSE s[i] * s[i] + SumSqTo(s, i - 1)

\* Python round(): the nearest integer to p / q, ties to the even one (q > 0).
RoundPos(p, q) ==
    LET f == p \div q
        r == p % q
    IN  IF 2 * r < q THEN f
        ELSE IF 2 * r > q THEN f + 1
        ELSE IF f % 2 = 0 THEN f ELSE f + 1

RoundDiv(p, q) == IF q < 0 THEN RoundPos(-p, -q) ELSE RoundPos(p, q)

(***************************************************************************)
(* History statistics (np.mean, np.std) and the z-score.                   *)
(***************************************************************************)
HistSum(h) == SumTo(h, Len(h))

HistSumSq(h) == SumSqTo(h, Len(h))

\* n*Q - S*S: (n * np.std(h))^2
Rad(h) == Len(h) * HistSumSq(h) - HistSum(h) * HistSum(h)

\* n*x - S: n * (current_value - hist_mean)
Dev(x, h) == Len(h) * x - HistSum(h)

\* z_score = (current_value - hist_mean) / hist_std
ZScore(x, h) == [num |-> Dev(x, h), rad |-> Rad(h)]

\* abs(z) > t and abs(z) >= t, for a whole number t
AbsZGt(z, t) == z.num * z.num > t * t * z.rad

AbsZGe(z, t) == z.num * z.num >= t * t * z.rad

\* Products beyond the machine word, as lists of base-10000 digits, lowest
\* digit first: they decide the rounding of a z-score exactly.
BigBase == 100 * 100

BigOf(a) == <<a % BigBase, (a \div BigBase) % BigBase, a \div (BigBase * BigBase)>>

BigDigit(x, i) == IF i >= 1 /\ i <= Len(x) THEN x[i] ELSE 0

\* sum of x[i] * y[k + 1 - i] for i = 1..n
RECURSIVE BigCoef(_, _, _, _)
BigCoef(x, y, k, n) ==
    IF n = 0 THEN 0
    ELSE BigDigit(x, n) * BigDigit(y, k + 1 - n) + BigCoef(x, y, k, n - 1)

RECURSIVE BigCarry(_, _, _, _, _)
BigCarry(x, y, k, last, carry) ==
    IF k > last THEN <<carry>>
    ELSE LET c == BigCoef(x, y, k, Len(x)) + carry
         IN  <<c % BigBase>> \o BigCarry(x, y, k + 1, last, c \div BigBase)

\* x * y; the highest digit may exceed the base, which comparison allows
BigMul(x, y) == BigCarry(x, y, 1, Len(x) + Len(y) - 1, 0)

\* x <= y (strict = FALSE) or x < y (strict = TRUE) on equal-length products
RECURSIVE BigLess(_, _, _, _)
BigLess(x, y, i, strict) ==
    IF i = 0 THEN ~strict
    ELSE IF BigDigit(x, i) < BigDigit(y, i) THEN TRUE
    ELSE IF BigDigit(x, i) > BigDigit(y, i) THEN FALSE
    ELSE BigLess(x, y, i - 1, strict)

\* c*c*rad against (2000*a)^2, padded to one length
ScaledSq(c, rad) == BigMul(BigMul(BigOf(c), BigOf(c)), BigOf(rad))

TargetSq(a) == BigMul(BigMul(BigOf(2000 * a), BigOf(2000 * a)), BigOf(1))

\* the largest c in lo..hi with c*c*rad <= target, by bisection
RECURSIVE FloorScaled(_, _, _, _)
FloorScaled(rad, target, lo, hi) ==
    IF lo >= hi THEN lo
    ELSE LET mid == (lo + hi + 1) \div 2
         IN  IF BigLess(ScaledSq(mid, rad), target, Len(target), FALSE)
             THEN FloorScaled(rad, target, mid, hi)
             ELSE FloorScaled(rad, target, lo, mid - 1)

\* round(z, 3) in thousandths, for z = num / sqrt(rad), rad > 0:
\* c = floor(2000 * |z|) is the largest c with c*c*rad <= (2000 * |num|)^2;
\* an even c = 2m rounds to m, an odd c = 2m + 1 to m + 1, and the exact
\* half 2000 * |z| = 2m + 1 to the even one of m and m + 1.
Round3(z) ==
    LET A == Abs(z.num)
        target == TargetSq(A)
        c   == FloorScaled(z.rad, target, 0, 2000 * A)
        m   == c \div 2
        tie == ~BigLess(ScaledSq(c, z.rad), target, Len(target), TRUE)
        k   == IF c % 2 = 0 THEN m
               ELSE IF tie /\ m % 2 = 0 THEN m
               ELSE m + 1
    IN  Sign(z.num) * k

(***************************************************************************)
(* Series of the history DataFrame.  An entry is a number, a missing       *)
(* value (NaN) or a non-numeric string.                                    *)
(***************************************************************************)
Num(v) == <<"num", v>>

NaN == <<"nan", 0>>

Str == <<"str", 0>>

IsPresent(e) == e[1] # "nan"

\* Series.dropna()
DropNa(s) == SelectSeq(s, IsPresent)

\* Series.tail(n)
TailN(s, n) == IF Len(s) <= n THEN s ELSE SubSeq(s, Len(s) - n + 1, Len(s))

\* history_df[hist_col].dropna().tail(30)
Window(s) == TailN(DropNa(s), ROLLING_WINDOW)

\* .values.astype(float) raises ValueError on a non-numeric string
AsTypeRaises(s) == \E i \in 1..Len(s) : s[i][1] = "str"

AsType(s) == [i \in 1..Len(s) |-> s[i][2]]

\* history_values of the code, for a series without non-numeric strings
HistoryValues(s) == AsType(Window(s))

(***************************************************************************)
(* Metric keys.  A key "col||metric" is held as the list key.split("||").  *)
(***************************************************************************)
MetricKinds == {"row_count", "null_pct", "mean", "std"}

\* the history column name: "row_count", or f"{col}__{metric}"
HistCol(col, metric) ==
    IF metric = "row_count" THEN <<"row_count">> ELSE <<col, "__", metric>>

(***************************************************************************)
(* assign_severity                                                         *)
(***************************************************************************)
\* mutant: the bands compared with z itself, not with abs(z)
assign_severity_signed(z_score, metric) ==
    IF z_score.num <= 0 THEN "LOW"
    ELSE IF metric = "row_count" THEN
        IF AbsZGt(z_score, 6) THEN "CRITICAL"
        ELSE IF AbsZGt(z_score, 4) THEN "HIGH"
        ELSE IF AbsZGt(z_score, 3) THEN "MEDIUM"
        ELSE "LOW"
    ELSE IF metric = "null_pct" THEN
        IF AbsZGt(z_score, 5) THEN "CRITICAL"
        ELSE IF AbsZGt(z_score, 4) THEN "HIGH"
        ELSE IF AbsZGt(z_score, 3) THEN "MEDIUM"
        ELSE "LOW"
    ELSE
        IF AbsZGt(z_score, 5) THEN "HIGH"
        ELSE IF AbsZGt(z_score, 3) THEN "MEDIUM"
        ELSE "LOW"

assign_severity(z_score, metric) ==
    IF metric = "row_count" THEN
        IF AbsZGt(z_score, 6) THEN "CRITICAL"
        ELSE IF AbsZGt(z_score, 4) THEN "HIGH"
        ELSE IF AbsZGt(z_score, 3) THEN "MEDIUM"
        ELSE "LOW"
    ELSE IF metric = "null_pct" THEN
        IF AbsZGt(z_score, 5) THEN "CRITICAL"
        ELSE IF AbsZGt(z_score, 4) THEN "HIGH"
        ELSE IF AbsZGt(z_score, 3) THEN "MEDIUM"
        ELSE "LOW"
    ELSE
        IF AbsZGt(z_score, 5) THEN "HIGH"
        ELSE IF AbsZGt(z_score, 3) THEN "MEDIUM"
        ELSE "LOW"

(***************************************************************************)
(* detect_anomalies_for_table: the conditions and values of one iteration  *)
(* with current value x and history values h.                              *)
(***************************************************************************)
\* mutant: one day fewer is enough
InsufficientHistory_short(h) == Len(h) < MIN_HISTORY_DAYS - 1

\* len(history_values) < MIN_HISTORY_DAYS
InsufficientHistory(h) == Len(h) < MIN_HISTORY_DAYS

\* hist_std < 1e-10.  On the grid a non-zero std is at least 1/31, so the
\* test is that of a zero variance.
ZeroVariance(h) == Rad(h) = 0

\* mutant: current_value >= 0.05
NullPctFires_inclusive(x, h) ==
    /\ HistSum(h) < NULL_BASELINE_MAX * Len(h)
    /\ x >= NULL_FIRE_MIN

\* null_pct: hist_mean < 0.01 and current_value > 0.05
NullPctFires(x, h) ==
    /\ HistSum(h) < NULL_BASELINE_MAX * Len(h)
    /\ x > NULL_FIRE_MIN

\* NullPctSeverity with MEDIUM below the critical level
NullPctSeverity_medium(x) == IF x > NULL_CRITICAL_MIN THEN "CRITICAL" ELSE "MEDIUM"

NullPctSeverity(x) == IF x > NULL_CRITICAL_MIN THEN "CRITICAL" ELSE "HIGH"

\* round(current_value - hist_mean, 4): thousandths to ten-thousandths
NullPctChange(x, h) == RoundDiv(10 * Dev(x, h), Len(h))

\* mean: hist_mean > 0
MeanGuard(h) == HistSum(h) > 0

\* pct_diff = abs(current_value - hist_mean) / hist_mean > p / 100
MeanDiffGt(x, h, p) == 100 * Abs(Dev(x, h)) > p * HistSum(h)

MeanSeverity(x, h) ==
    IF MeanDiffGt(x, h, MEAN_CRITICAL_PCT) THEN "CRITICAL" ELSE "HIGH"

\* round(pct_diff, 4) with pct_diff = abs(current_value - hist_mean) / hist_mean
MeanPctChange(x, h) == RoundDiv(10000 * Abs(Dev(x, h)), HistSum(h))

\* row_count: hist_mean > 0
RowGuard(h) == HistSum(h) > 0

\* mutant: a change of either direction
RowDiffLt_abs(x, h, p) == 100 * Abs(Dev(x, h)) > p * HistSum(h)

\* pct_diff = (current_value - hist_mean) / hist_mean < -p / 100
RowDiffLt(x, h, p) == 100 * Dev(x, h) < -(p * HistSum(h))

RowSeverity(x, h) ==
    IF RowDiffLt(x, h, ROW_CRITICAL_PCT) THEN "CRITICAL" ELSE "HIGH"

\* round(pct_diff, 4) with pct_diff = (current_value - hist_mean) / hist_mean
RowPctChange(x, h) == RoundDiv(10000 * Dev(x, h), HistSum(h))

\* mutant: abs(z_score) > ZSCORE_THRESHOLD
ZFires_strict(x, h) == AbsZGt(ZScore(x, h), ZSCORE_THRESHOLD)

\* mutant: z_score >= ZSCORE_THRESHOLD, without abs
ZFires_positive(x, h) == Dev(x, h) > 0 /\ AbsZGe(ZScore(x, h), ZSCORE_THRESHOLD)

\* abs(z_score) >= ZSCORE_THRESHOLD
ZFires(x, h) == AbsZGe(ZScore(x, h), ZSCORE_THRESHOLD)

\* mutant: abs(pct_change) <= 0.05
PctChangeSmall_inclusive(x, h) ==
    IF HistSum(h) # 0
    THEN 100 * Abs(Dev(x, h)) <= NULL_LOW_MIN_PCT * Abs(HistSum(h))
    ELSE TRUE

\* abs(pct_change) < 0.05, pct_change being 0.0 when hist_mean == 0
PctChangeSmall(x, h) ==
    IF HistSum(h) # 0
    THEN 100 * Abs(Dev(x, h)) < NULL_LOW_MIN_PCT * Abs(HistSum(h))
    ELSE TRUE

\* metric == "null_pct" and severity == "LOW" and abs(pct_change) < 0.05
NullLowSuppressed(metric, severity, x, h) ==
    /\ metric = "null_pct"
    /\ severity = "LOW"
    /\ PctChangeSmall(x, h)

\* round(pct_change, 4), pct_change = (current_value - hist_mean) / hist_mean
\* if hist_mean != 0 else 0.0
\* NormalPctChange with the difference to the mean reported when the mean is 0
NormalPctChange_difference(x, h) ==
    IF HistSum(h) # 0 THEN RoundDiv(10000 * Dev(x, h), HistSum(h))
    ELSE RoundDiv(10 * Dev(x, h), Len(h))

\* round(pct_change, 4), pct_change being 0.0 when hist_mean == 0
NormalPctChange(x, h) ==
    IF HistSum(h) # 0 THEN RoundDiv(10000 * Dev(x, h), HistSum(h)) ELSE 0

Anomaly(t, col, metric, x, z, pct, sev) ==
    [table |-> t, column |-> col, metric |-> metric, current_value |-> x,
     z_score |-> z, pct_change |-> pct, severity |-> sev]

\* Anomaly.summary: the direction word
SummaryDirection(a) == IF a.pct_change > 0 THEN "spiked" ELSE "dropped"

\* the Anomalies appended by the branch hist_std < 1e-10
ZeroVarianceEmits(t, col, metric, x, h) ==
    IF metric = "null_pct" /\ NullPctFires(x, h) THEN
        <<Anomaly(t, col, metric, x, SENTINEL_Z, NullPctChange(x, h),
                  NullPctSeverity(x))>>
    ELSE IF metric = "mean" /\ MeanGuard(h) THEN
        IF MeanDiffGt(x, h, MEAN_FIRE_PCT)
        THEN <<Anomaly(t, col, metric, x, SENTINEL_Z, MeanPctChange(x, h),
                       MeanSeverity(x, h))>>
        ELSE <<>>
    ELSE IF metric = "row_count" /\ RowGuard(h) THEN
        IF RowDiffLt(x, h, ROW_FIRE_PCT)
        THEN <<Anomaly(t, col, metric, x, SENTINEL_Z, RowPctChange(x, h),
                       RowSeverity(x, h))>>
        ELSE <<>>
    ELSE <<>>

\* the Anomalies appended by the z-score branch
NormalEmits(t, col, metric, x, h) ==
    IF ZFires(x, h) THEN
        LET severity == assign_severity(ZScore(x, h), metric)
        IN  IF NullLowSuppressed(metric, severity, x, h) THEN <<>>
            ELSE <<Anomaly(t, col, metric, x, Round3(ZScore(x, h)),
                           NormalPctChange(x, h), severity)>>
    ELSE <<>>

\* the statistics of one loop iteration on the history values h: the
\* minimum-history check, then one of the two branches
DetectKey(t, col, metric, x, h) ==
    IF InsufficientHistory(h) THEN <<>>
    ELSE IF ZeroVariance(h) THEN ZeroVarianceEmits(t, col, metric, x, h)
    ELSE NormalEmits(t, col, metric, x, h)

\* the loop of detect_anomalies_for_table from item i on, acc being the
\* local list so far: the returned list, or raised when an iteration raises
RECURSIVE DetectFrom(_, _, _, _, _)
DetectFrom(t, metrics, hist, i, acc) ==
    IF i > Len(metrics) THEN [raised |-> FALSE, anomalies |-> acc]
    ELSE LET key == metrics[i].key
             x   == metrics[i].value
         IN  IF Len(key) # 2 THEN [raised |-> TRUE, anomalies |-> <<>>]
             ELSE IF key[2] \notin MetricKinds
                     \/ HistCol(key[1], key[2]) \notin DOMAIN hist
                  THEN DetectFrom(t, metrics, hist, i + 1, acc)
             ELSE LET w == Window(hist[HistCol(key[1], key[2])])
                  IN  IF AsTypeRaises(w) THEN [raised |-> TRUE, anomalies |-> <<>>]
                      ELSE DetectFrom(t, metrics, hist, i + 1,
                                      acc \o DetectKey(t, key[1], key[2], x, AsType(w)))

\* detect_anomalies_for_table as a function of its arguments
detect_anomalies_for_table(t, metrics, hist) == DetectFrom(t, metrics, hist, 1, <<>>)

(***************************************************************************)
(* Inputs.  A call of detect_anomalies_for_table is given by a record      *)
(* [table, metrics, hist]: metrics is the list of dict items               *)
(* [key, value], hist maps history column names to series.                 *)
(***************************************************************************)
Alt(a, b, n) == [i \in 1..n |-> Num(IF i % 2 = 1 THEN a ELSE b)]

Rep(e, n) == [i \in 1..n |-> e]

\* <<a, b>>: a history alternating between a and b (constant when a = b)
HistPairs ==
    {<<0, 0>>, <<5, 5>>, <<10, 10>>, <<100, 100>>, <<-100, -100>>,
     <<0, 2>>, <<20, 22>>, <<59, 61>>, <<100, 102>>, <<-2, 0>>, <<-1, 1>>}

HistLens ==
    {MIN_HISTORY_DAYS - 1, MIN_HISTORY_DAYS, MIN_HISTORY_DAYS + 1, ROLLING_WINDOW}

\* a series with its second entry missing
WithHole(s) == [i \in 1..Len(s) |-> IF i = 2 THEN NaN ELSE s[i]]

\* the series of a pair: every length; one missing value at the minimum
\* length and at the window length; older rows in front of a full window
SeriesOf(p) ==
    {Alt(p[1], p[2], n) : n \in HistLens}
    \cup {WithHole(Alt(p[1], p[2], n)) : n \in {MIN_HISTORY_DAYS, ROLLING_WINDOW}}
    \cup {Rep(Num(p[1] + 50), pad) \o body :
            pad \in 1..MaxPad,
            body \in {Alt(p[1], p[2], ROLLING_WINDOW),
                      WithHole(Alt(p[1], p[2], ROLLING_WINDOW))}}

\* today's value: an offset from the first history value, or a fixed value
FlatDeltas == {-51, -50, -31, -30, -21, -20, -16, -15, 0, 1, 20, 21, 50, 51}

WavyDeltas == {-5, -3, -2, 0, 1, 3, 4, 5, 6, 7, 8, 1000}

FixedToday == {20, 51, 200, 201, 450}

TodayOf(p) ==
    IF p[1] = p[2]
    THEN {p[1] + d : d \in FlatDeltas} \cup FixedToday
    ELSE {p[1] + d : d \in WavyDeltas}

\* the values a metric kind can take: a count of rows, a fraction of rows in
\* thousandths, any mean, a non-negative standard deviation
ValidValue(metric, v) ==
    CASE metric = "row_count" -> v >= 0
      [] metric = "null_pct"  -> v >= 0 /\ v <= 1000
      [] metric = "std"       -> v >= 0
      [] OTHER                -> TRUE

ValidSeries(metric, s) ==
    \A i \in 1..Len(s) : s[i][1] = "num" => ValidValue(metric, s[i][2])

KeyOf(metric) ==
    IF metric = "row_count" THEN <<"__row_count__", metric>> ELSE <<"amount", metric>>

\* snapshots of one key over the histories of HistPairs
SingleKeyInputs ==
    UNION {{[table   |-> "orders",
             metrics |-> <<[key |-> KeyOf(m), value |-> x]>>,
             hist    |-> (HistCol(KeyOf(m)[1], m) :> s)] :
                x \in {v \in TodayOf(p) : ValidValue(m, v)},
                s \in {t \in SeriesOf(p) : ValidSeries(m, t)}} :
           m \in MetricKinds, p \in HistPairs}

\* keys of the snapshots of several keys, each with its values of today:
\* well-formed keys, a key of an unknown metric kind, a key without "||",
\* and a key whose history column is absent
PoolKeys ==
    {[key |-> <<"__row_count__", "row_count">>, values |-> {1, 8}],
     [key |-> <<"amount", "null_pct">>,         values |-> {20, 450}],
     [key |-> <<"amount", "mean">>,             values |-> {100, 50}],
     [key |-> <<"amount", "std">>,              values |-> {5}],
     [key |-> <<"amount", "median">>,           values |-> {5}],
     [key |-> <<"amount">>,                     values |-> {5}],
     [key |-> <<"price", "mean">>,              values |-> {5}]}

\* the history of these snapshots; amount__std holds a non-numeric string
PoolHistory ==
    (<<"row_count">> :> Alt(0, 2, 8))
    @@ (<<"amount", "__", "null_pct">> :> Alt(0, 0, 8))
    @@ (<<"amount", "__", "mean">> :> Alt(100, 100, 8))
    @@ (<<"amount", "__", "std">> :> (<<Str>> \o Alt(3, 3, 7)))

PoolItems == UNION {{[key |-> k.key, value |-> v] : v \in k.values} : k \in PoolKeys}

\* a dict holds a key once
DistinctKeys(s) == \A i, j \in 1..Len(s) : i < j => s[i].key # s[j].key

MultiKeyInputs ==
    {[table |-> t, metrics |-> s, hist |-> PoolHistory] :
        t \in {"orders", "payments"},
        s \in {m \in UNION {[1..n -> PoolItems] : n \in 1..MaxKeys} : DistinctKeys(m)}}

Inputs == SingleKeyInputs \cup MultiKeyInputs

NoZ == [num |-> 0, rad |-> 1]

Init ==
    /\ \E c \in Inputs :
          /\ table = c.table
          /\ current_metrics = c.metrics
          /\ history_df = c.hist
    /\ idx = 1
    /\ anomalies = <<>>
    /\ pc = "loop"
    /\ z_in = NoZ
    /\ metric_in = "none"
    /\ severity_out = "none"
    /\ SchemaIdle
    /\ SideIdle
    /\ RunIdle

(***************************************************************************)
(* detect_anomalies_for_table: one action per way through the loop body.   *)
(***************************************************************************)
AtKey == pc = "loop" /\ idx <= Len(current_metrics)

CurKey == current_metrics[idx].key

CurValue == current_metrics[idx].value

WellFormed == Len(CurKey) = 2

CurCol == CurKey[1]

CurMetric == CurKey[2]

CurHistCol == HistCol(CurCol, CurMetric)

HasHistory == WellFormed /\ CurMetric \in MetricKinds /\ CurHistCol \in DOMAIN history_df

CurSeries == Window(history_df[CurHistCol])

Continue ==
    /\ idx' = idx + 1
    /\ UNCHANGED <<table, current_metrics, history_df, anomalies, pc,
                   z_in, metric_in, severity_out, schemaVars, runVars,
                   sideVars>>

Raise ==
    /\ pc' = "raised"
    /\ UNCHANGED <<table, current_metrics, history_df, idx, anomalies,
                   z_in, metric_in, severity_out, schemaVars, runVars,
                   sideVars>>

\* Emit with the record appended twice
Emit_twice(new) ==
    /\ anomalies' = anomalies \o new \o new
    /\ idx' = idx + 1
    /\ UNCHANGED <<table, current_metrics, history_df, pc,
                   z_in, metric_in, severity_out, schemaVars, runVars,
                   sideVars>>

Emit(new) ==
    /\ anomalies' = anomalies \o new
    /\ idx' = idx + 1
    /\ UNCHANGED <<table, current_metrics, history_df, pc,
                   z_in, metric_in, severity_out, schemaVars, runVars,
                   sideVars>>

\* col, metric = key.split("||") raises ValueError unless there are two parts
SplitRaises ==
    /\ AtKey
    /\ ~WellFormed
    /\ Raise

\* else: continue
SkipUnknownMetric ==
    /\ AtKey
    /\ WellFormed
    /\ CurMetric \notin MetricKinds
    /\ Continue

\* if hist_col not in history_df.columns: continue
SkipMissingColumn ==
    /\ AtKey
    /\ WellFormed
    /\ CurMetric \in MetricKinds
    /\ CurHistCol \notin DOMAIN history_df
    /\ Continue

\* .astype(float) raises ValueError
AsTypeRaisesError ==
    /\ AtKey
    /\ HasHistory
    /\ AsTypeRaises(CurSeries)
    /\ Raise

\* if len(history_values) < MIN_HISTORY_DAYS: continue
SkipInsufficientHistory ==
    /\ AtKey
    /\ HasHistory
    /\ ~AsTypeRaises(CurSeries)
    /\ InsufficientHistory(AsType(CurSeries))
    /\ Continue

\* if hist_std < 1e-10: ... continue
ZeroVarianceBranch ==
    /\ AtKey
    /\ HasHistory
    /\ ~AsTypeRaises(CurSeries)
    /\ ~InsufficientHistory(AsType(CurSeries))
    /\ ZeroVariance(AsType(CurSeries))
    /\ Emit(ZeroVarianceEmits(table, CurCol, CurMetric, CurValue, AsType(CurSeries)))

\* the z-score path
NormalBranch ==
    /\ AtKey
    /\ HasHistory
    /\ ~AsTypeRaises(CurSeries)
    /\ ~InsufficientHistory(AsType(CurSeries))
    /\ ~ZeroVariance(AsType(CurSeries))
    /\ Emit(NormalEmits(table, CurCol, CurMetric, CurValue, AsType(CurSeries)))

\* return anomalies
Return ==
    /\ pc = "loop"
    /\ idx > Len(current_metrics)
    /\ pc' = "returned"
    /\ UNCHANGED <<table, current_metrics, history_df, idx, anomalies,
                   z_in, metric_in, severity_out, schemaVars, runVars,
                   sideVars>>

Next ==
    \/ SplitRaises
    \/ SkipUnknownMetric
    \/ SkipMissingColumn
    \/ AsTypeRaisesError
    \/ SkipInsufficientHistory
    \/ ZeroVarianceBranch
    \/ NormalBranch
    \/ Return

Spec == Init /\ [][Next]_vars

(***************************************************************************)
(* assign_severity applied to a z-score of either sign.                    *)
(***************************************************************************)
\* z = k / 10
Tenths(k) == [num |-> k, rad |-> 100]

SeverityInit ==
    /\ table = "none"
    /\ current_metrics = <<>>
    /\ history_df = <<>>
    /\ idx = 1
    /\ anomalies = <<>>
    /\ pc = "classify"
    /\ z_in \in {Tenths(k) : k \in (-MaxZTenths)..MaxZTenths}
    /\ metric_in \in MetricKinds
    /\ severity_out = "none"
    /\ SchemaIdle
    /\ SideIdle
    /\ RunIdle

Classify ==
    /\ pc = "classify"
    /\ severity_out' = assign_severity(z_in, metric_in)
    /\ pc' = "classified"
    /\ UNCHANGED <<table, current_metrics, history_df, idx, anomalies, z_in, metric_in,
                   schemaVars, runVars,
                   sideVars>>

SeverityNext == Classify

SeveritySpec == SeverityInit /\ [][SeverityNext]_vars

(***************************************************************************)
(* src/src/monitoring/schema_monitor.py: compare_schemas.  A schema is a   *)
(* dict from column names to type strings.  The three loops of the         *)
(* function run over Python sets, whose iteration order is not fixed: the  *)
(* function is modelled by the set of lists it can return.                 *)
(***************************************************************************)
SchemaDrift(t, drift_type, column_name, old_value, new_value, severity) ==
    [table |-> t, drift_type |-> drift_type, column_name |-> column_name,
     old_value |-> old_value, new_value |-> new_value, severity |-> severity]

\* DroppedDrift without the old type
DroppedDrift_no_old(t, b, col) ==
    SchemaDrift(t, "column_dropped", col, "", "", "CRITICAL")

DroppedDrift(t, b, col) ==
    SchemaDrift(t, "column_dropped", col, b[col], "", "CRITICAL")

\* AddedDrift with the type in old_value
AddedDrift_swapped(t, c, col) ==
    SchemaDrift(t, "column_added", col, c[col], "", "LOW")

AddedDrift(t, c, col) ==
    SchemaDrift(t, "column_added", col, "", c[col], "LOW")

ChangedDrift(t, b, c, col) ==
    SchemaDrift(t, "type_changed", col, b[col], c[col], "HIGH")

\* TypeChanged with types compared without regard to letter case
TypeChanged_caseless(b, c, col) ==
    /\ b[col] # c[col]
    /\ {b[col], c[col]} # {"VARCHAR", "varchar"}

\* if baseline[col] != current[col]
TypeChanged(b, c, col) == b[col] # c[col]

\* the lists that hold every element of S once: the orders in which a loop
\* can run over the set S
Orders(S) ==
    {s \in [1..Cardinality(S) -> S] :
        \A i, j \in 1..Cardinality(S) : i < j => s[i] # s[j]}

DroppedColumns(b, c) == (DOMAIN b) \ (DOMAIN c)

AddedColumns(b, c) == (DOMAIN c) \ (DOMAIN b)

ChangedColumns(b, c) == {col \in (DOMAIN b) \cap (DOMAIN c) : TypeChanged(b, c, col)}

compare_schemas(t, b, c) ==
    {[i \in 1..Len(d) |-> DroppedDrift(t, b, d[i])]
       \o [i \in 1..Len(a) |-> AddedDrift(t, c, a[i])]
       \o [i \in 1..Len(x) |-> ChangedDrift(t, b, c, x[i])] :
        d \in Orders(DroppedColumns(b, c)),
        a \in Orders(AddedColumns(b, c)),
        x \in Orders(ChangedColumns(b, c))}

\* column names and type strings of the schemas compared
NameList == <<"id", "amount", "status", "total">>

ColumnNames == {NameList[i] : i \in 1..MaxColumns}

TypeNames == {"VARCHAR", "varchar", "DOUBLE"}

Schemas == UNION {[S -> TypeNames] : S \in SUBSET ColumnNames}

CompareInit ==
    /\ DetectIdle
    /\ pc = "compare"
    /\ schema_table \in {"orders", "payments"}
    /\ baseline \in Schemas
    /\ current \in Schemas
    /\ drifts = <<>>
    /\ RunIdle
    /\ SideIdle

Compare ==
    /\ pc = "compare"
    /\ drifts' \in compare_schemas(schema_table, baseline, current)
    /\ pc' = "compared"
    /\ UNCHANGED <<table, current_metrics, history_df, idx, anomalies,
                   z_in, metric_in, severity_out, schema_table, baseline,
                   current, runVars, sideVars>>

CompareNext == Compare

CompareSpec == CompareInit /\ [][CompareNext]_vars

(***************************************************************************)
(* The entry points: run_anomaly_detector, run_schema_monitor,             *)
(* update_baseline and run_root_cause_analyzer, on the warehouse and the   *)
(* files of data/snapshots.  A CSV file is the record [exists, rows]; a    *)
(* row holds the cells as text.  Time is the number of calls made: a       *)
(* record created during call n has detected_at = n, a row older than the  *)
(* first call has detected_at = 0.                                         *)
(***************************************************************************)
TABLES_TO_MONITOR ==
    <<"customers", "products", "orders", "order_items", "payments", "events">>

Tables == {TABLES_TO_MONITOR[i] : i \in 1..Len(TABLES_TO_MONITOR)}

EntryPoints ==
    {"run_anomaly_detector", "run_schema_monitor", "update_baseline",
     "run_root_cause_analyzer", "trigger_full_pipeline", "run_slack_alerts"}

\* the entry points that run run_root_cause_analyzer
Analyzers == {"run_root_cause_analyzer", "trigger_full_pipeline"}

\* the running entry point and its clock
Entry == calls[Len(calls)]

Now == Len(calls)

NoFile == [exists |-> FALSE, rows |-> <<>>]

NoReports == [exists |-> FALSE, reports |-> <<>>]

\* schema_baseline.csv is absent; the rows of the baseline are a set
NoBaseline == [exists |-> FALSE, rows |-> {}]

\* pandas.read_csv reads these cells as missing values (NaN); the list is
\* the part of the reader's default list that can name a column
NaLiterals == {"NA", "N/A", "NULL", "NaN", "None", "nan", "null", "n/a"}

\* the float NaN that read_csv returns for such a cell, as a dict key
FloatNaN == "float('nan')"

ReadCsvCell(text) == IF text \in NaLiterals THEN FloatNaN ELSE text

\* DataFrame.to_csv writes a missing value as the empty cell
WriteCsvCell(value) == IF value = FloatNaN THEN "" ELSE value

\* get_current_schema: DESCRIBE table
get_current_schema(t) == warehouse[t].schema

\* compute_current_metrics: the aggregates of the table
compute_current_metrics(t) == warehouse[t].metrics

\* load_historical_metrics: None when the file is missing
HasDailyFile(t) == t \in DOMAIN daily_files

load_historical_metrics(t) == daily_files[t]

\* load_baseline_schema: {} without file or without rows of the table,
\* else dict(zip(column_name, dtype)) of the rows of the table as read
BaselineRows(t) == {r \in schema_baseline.rows : r.table = t}

load_baseline_schema(t) ==
    IF ~schema_baseline.exists THEN <<>>
    ELSE [col \in {ReadCsvCell(r.column_name) : r \in BaselineRows(t)} |->
             ReadCsvCell((CHOOSE r \in BaselineRows(t) :
                              ReadCsvCell(r.column_name) = col).dtype)]

\* the file update_baseline writes: one row per table and column
StoredBaseline ==
    [exists |-> TRUE,
     rows   |-> UNION {{[table |-> t, column_name |-> col,
                         dtype |-> get_current_schema(t)[col]] :
                            col \in DOMAIN get_current_schema(t)} : t \in Tables}]

\* detected_at = datetime.utcnow() of the dataclasses
Stamp(list) == [i \in 1..Len(list) |-> list[i] @@ [detected_at |-> Now]]

\* existing = pd.read_csv(HISTORY_PATH); combined = pd.concat([existing,
\* new_df]); combined.to_csv(HISTORY_PATH): the old rows are read and
\* written again, the new rows are written
Reread(row, field) == [row EXCEPT ![field] = WriteCsvCell(ReadCsvCell(@))]

Written(row, field) == [row EXCEPT ![field] = WriteCsvCell(@)]

\* the file written from the new rows alone
AppendRows_new_only(file, field, new) ==
    [exists |-> TRUE,
     rows   |-> [i \in 1..Len(new) |-> Written(new[i], field)]]

AppendRows(file, field, new) ==
    [exists |-> TRUE,
     rows   |-> [i \in 1..Len(file.rows) |-> Reread(file.rows[i], field)]
                \o [i \in 1..Len(new) |-> Written(new[i], field)]]

\* save_anomalies: nothing for an empty list
save_anomalies(list) ==
    IF list = <<>> THEN anomaly_history
    ELSE AppendRows(anomaly_history, "column", list)

\* save_to_history: nothing for an empty list
save_to_history(list) ==
    IF list = <<>> THEN schema_history
    ELSE AppendRows(schema_history, "column_name", list)

(***************************************************************************)
(* The warehouses and files the entry points are run on.                   *)
(***************************************************************************)
NominalSchema == ("id" :> "VARCHAR") @@ ("amount" :> "DOUBLE")

\* amount renamed to total
RenamedSchema == ("id" :> "VARCHAR") @@ ("total" :> "DOUBLE")

\* a column named NA
NaSchema == ("id" :> "VARCHAR") @@ ("NA" :> "VARCHAR")

MetricsOf(rows, nulls) ==
    <<[key |-> <<"__row_count__", "row_count">>, value |-> rows],
      [key |-> <<"id", "null_pct">>,             value |-> 0],
      [key |-> <<"amount", "null_pct">>,         value |-> nulls],
      [key |-> <<"amount", "mean">>,             value |-> 100],
      [key |-> <<"amount", "std">>,              value |-> 3]>>

CleanMetrics == MetricsOf(1, 0)

\* the row count far above its history
SpikeMetrics == MetricsOf(8, 0)

\* the row count and the nulls of amount far above their history
DoubleSpikeMetrics == MetricsOf(8, 450)

CleanHistory ==
    (<<"row_count">> :> Alt(0, 2, 8))
    @@ (<<"id", "__", "null_pct">> :> Alt(0, 0, 8))
    @@ (<<"amount", "__", "null_pct">> :> Alt(0, 0, 8))
    @@ (<<"amount", "__", "mean">> :> Alt(100, 100, 8))
    @@ (<<"amount", "__", "std">> :> Alt(3, 3, 8))

\* a non-numeric cell in amount__std
CorruptHistory ==
    [CleanHistory EXCEPT ![<<"amount", "__", "std">>] = <<Str>> \o Alt(3, 3, 7)]

WarehouseOf(schemas, metrics) ==
    [t \in Tables |->
        [schema  |-> IF t \in DOMAIN schemas THEN schemas[t] ELSE NominalSchema,
         metrics |-> IF t \in DOMAIN metrics THEN metrics[t] ELSE CleanMetrics]]

DailyFilesOf(missing, corrupt) ==
    [t \in Tables \ missing |-> IF t \in corrupt THEN CorruptHistory ELSE CleanHistory]

\* the baseline file holding the nominal schema of the tables given
NominalBaseline(tables) ==
    [exists |-> TRUE,
     rows   |-> {[table |-> t, column_name |-> col, dtype |-> NominalSchema[col]] :
                    t \in tables, col \in DOMAIN NominalSchema}]

OddSchemas ==
    {<<>>, "orders" :> RenamedSchema, "payments" :> NaSchema}

OddMetrics ==
    {<<>>, "orders" :> SpikeMetrics,
     ("orders" :> SpikeMetrics) @@ ("payments" :> DoubleSpikeMetrics)}

MissingDaily == {{}, {"products"}, {"customers", "events"}, Tables}

Baselines == {NoBaseline, NominalBaseline(Tables), NominalBaseline(Tables \ {"products"})}

\* a history file that holds one row older than the first call
PriorAnomalies ==
    [exists |-> TRUE,
     rows   |-> <<Anomaly("orders", "amount", "mean", 50, SENTINEL_Z, -5000, "CRITICAL")
                    @@ [detected_at |-> 0]>>]

PriorDrifts ==
    [exists |-> TRUE,
     rows   |-> <<SchemaDrift("events", "column_added", "NA", "", "VARCHAR", "LOW")
                    @@ [detected_at |-> 0]>>]

\* RootCauseReport without its texts; generated_at = datetime.utcnow()
RootCauseReport(t, col, metric, sev, at) ==
    [table |-> t, column |-> col, metric |-> metric, severity |-> sev,
     generated_at |-> at]

\* the reports file an earlier run of run_root_cause_analyzer has written
PriorReports ==
    [exists  |-> TRUE,
     reports |-> <<RootCauseReport("orders", "amount", "mean", "CRITICAL", 0)>>]

Environment(schemas, metrics, missing, corrupt, base, prior) ==
    [warehouse       |-> WarehouseOf(schemas, metrics),
     daily_files     |-> DailyFilesOf(missing, corrupt),
     schema_baseline |-> base,
     anomaly_history |-> IF prior THEN PriorAnomalies ELSE NoFile,
     schema_history  |-> IF prior THEN PriorDrifts ELSE NoFile,
     reports_file    |-> IF prior THEN PriorReports ELSE NoReports]

Environments ==
    {Environment(<<>>, m, d, c, NominalBaseline(Tables), p) :
        m \in OddMetrics, d \in MissingDaily, c \in {{}, {"events"}}, p \in BOOLEAN}
    \cup {Environment(s, <<>>, {}, {}, b, p) :
        s \in OddSchemas, b \in Baselines, p \in BOOLEAN}
    \cup {Environment("orders" :> RenamedSchema, m, {"products"}, {},
                      NominalBaseline(Tables \ {"products"}), p) :
        m \in {"orders" :> SpikeMetrics, "payments" :> SpikeMetrics}, p \in BOOLEAN}

\* SLACK_WEBHOOK_URL is set, or is left unset where the daily file of
\* products is missing
Webhooks(e) == IF "products" \in DOMAIN e.daily_files THEN {TRUE} ELSE BOOLEAN

\* the sequences of calls run
Scripts ==
    {<<"run_anomaly_detector", "run_anomaly_detector">>,
     <<"run_schema_monitor", "run_schema_monitor">>,
     <<"update_baseline", "run_schema_monitor">>,
     <<"run_root_cause_analyzer", "update_baseline", "run_root_cause_analyzer">>,
     <<"trigger_full_pipeline">>,
     <<"run_slack_alerts">>}

RunInit ==
    /\ DetectIdle
    /\ pc = "none"
    /\ SchemaIdle
    /\ SideIdle
    /\ \E e \in Environments :
          /\ warehouse = e.warehouse
          /\ daily_files = e.daily_files
          /\ schema_baseline = e.schema_baseline
          /\ anomaly_history = e.anomaly_history
          /\ schema_history = e.schema_history
          /\ reports_file = e.reports_file
          /\ webhook \in Webhooks(e)
    /\ calls = <<>>
    /\ run_pc = "idle"
    /\ run_idx = 1
    /\ visited = <<>>
    /\ all_anomalies = <<>>
    /\ all_drifts = <<>>
    /\ llm_calls = <<>>
    /\ reports = <<>>
    /\ posts = <<>>
    /\ completed = <<>>

(***************************************************************************)
(* The entry points, one action per step.                                  *)
(***************************************************************************)
Files == <<daily_files, schema_baseline, anomaly_history, schema_history>>

IsPrefix(s, t) == Len(s) <= Len(t) /\ SubSeq(t, 1, Len(s)) = s

Finished ==
    run_pc \in {"idle", "returned", "a_raised", "s_raised", "u_raised", "e_raised"}

StartOf(e) ==
    CASE e = "run_anomaly_detector"    -> "a_connect"
      [] e = "run_schema_monitor"      -> "s_connect"
      [] e = "update_baseline"         -> "u_write"
      [] e = "run_root_cause_analyzer" -> "a_connect"
      [] e = "trigger_full_pipeline"   -> "a_connect"
      [] e = "run_slack_alerts"        -> "k_open"

\* a caller calls entry point e
Call(e) ==
    /\ Finished
    /\ \E script \in Scripts : IsPrefix(Append(calls, e), script)
    /\ calls' = Append(calls, e)
    /\ run_pc' = StartOf(e)
    /\ run_idx' = 1
    /\ visited' = <<>>
    /\ all_anomalies' = <<>>
    /\ all_drifts' = <<>>
    /\ llm_calls' = <<>>
    /\ reports' = <<>>
    /\ posts' = <<>>
    /\ completed' = <<>>
    /\ UNCHANGED <<detectVars, schemaVars, sideVars, warehouse, Files, reports_file,
                   webhook>>

AtTable(loop) == run_pc = loop /\ run_idx <= Len(TABLES_TO_MONITOR)

RunTable == TABLES_TO_MONITOR[run_idx]

LoopDone(loop) == run_pc = loop /\ run_idx > Len(TABLES_TO_MONITOR)

\* the for loop takes its next table
TakeTable ==
    /\ run_idx' = run_idx + 1
    /\ visited' = Append(visited, RunTable)

\* an exception leaves the loop and the function
RaiseAt(where) ==
    /\ run_pc' = where
    /\ UNCHANGED <<detectVars, schemaVars, sideVars, alertVars, completed, warehouse, Files, calls, run_idx,
                   all_anomalies, all_drifts, llm_calls>>

\* con = duckdb.connect(DB_PATH); all_anomalies = []
AnomalyConnect ==
    /\ run_pc = "a_connect"
    /\ run_pc' = "a_loop"
    /\ UNCHANGED <<detectVars, schemaVars, sideVars, alertVars, completed, warehouse, Files, calls, run_idx,
                   visited, all_anomalies, all_drifts, llm_calls>>

\* duckdb.connect raises
AnomalyConnectFails ==
    /\ run_pc = "a_connect"
    /\ RaiseAt("a_raised")
    /\ UNCHANGED visited

\* the loop of SkipNoHistory left by break
SkipNoHistory_break ==
    /\ AtTable("a_loop")
    /\ ~HasDailyFile(RunTable)
    /\ run_idx' = Len(TABLES_TO_MONITOR) + 1
    /\ visited' = Append(visited, RunTable)
    /\ UNCHANGED <<detectVars, schemaVars, sideVars, alertVars, completed, warehouse, Files, calls, run_pc,
                   all_anomalies, all_drifts, llm_calls>>

\* if history_df is None: continue
SkipNoHistory ==
    /\ AtTable("a_loop")
    /\ ~HasDailyFile(RunTable)
    /\ TakeTable
    /\ UNCHANGED <<detectVars, schemaVars, sideVars, alertVars, completed, warehouse, Files, calls, run_pc,
                   all_anomalies, all_drifts, llm_calls>>

\* a query of compute_current_metrics raises
MetricsQueryFails ==
    /\ AtTable("a_loop")
    /\ HasDailyFile(RunTable)
    /\ RaiseAt("a_raised")
    /\ visited' = Append(visited, RunTable)

DetectResult ==
    detect_anomalies_for_table(RunTable, compute_current_metrics(RunTable),
                               load_historical_metrics(RunTable))

\* detect_anomalies_for_table raises
DetectRaises ==
    /\ AtTable("a_loop")
    /\ HasDailyFile(RunTable)
    /\ DetectResult.raised
    /\ RaiseAt("a_raised")
    /\ visited' = Append(visited, RunTable)

\* DetectTable with the Anomalies of the table saved at once
DetectTable_saves ==
    /\ AtTable("a_loop")
    /\ HasDailyFile(RunTable)
    /\ ~DetectResult.raised
    /\ all_anomalies' = all_anomalies \o Stamp(DetectResult.anomalies)
    /\ anomaly_history' = save_anomalies(Stamp(DetectResult.anomalies))
    /\ TakeTable
    /\ UNCHANGED <<detectVars, schemaVars, sideVars, alertVars, completed, warehouse, daily_files,
                   schema_baseline, schema_history, calls, run_pc, all_drifts,
                   llm_calls>>

\* anomalies = detect_anomalies_for_table(...); all_anomalies.extend
DetectTable ==
    /\ AtTable("a_loop")
    /\ HasDailyFile(RunTable)
    /\ ~DetectResult.raised
    /\ all_anomalies' = all_anomalies \o Stamp(DetectResult.anomalies)
    /\ TakeTable
    /\ UNCHANGED <<detectVars, schemaVars, sideVars, alertVars, completed, warehouse, Files, calls, run_pc,
                   all_drifts, llm_calls>>

\* con.close(); save_anomalies(all_anomalies); return all_anomalies
AnomalyDetectorReturns ==
    /\ LoopDone("a_loop")
    /\ anomaly_history' = save_anomalies(all_anomalies)
    /\ run_pc' = IF Entry \in Analyzers THEN "s_connect" ELSE "returned"
    /\ completed' = Append(completed, "anomaly_detector")
    /\ UNCHANGED <<detectVars, schemaVars, sideVars, alertVars, warehouse, daily_files,
                   schema_baseline, schema_history, calls, run_idx, visited,
                   all_anomalies, all_drifts, llm_calls>>

\* con = duckdb.connect(DB_PATH); all_drifts = []
SchemaConnect ==
    /\ run_pc = "s_connect"
    /\ run_pc' = "s_loop"
    /\ run_idx' = 1
    /\ visited' = <<>>
    /\ UNCHANGED <<detectVars, schemaVars, sideVars, alertVars, completed, warehouse, Files, calls,
                   all_anomalies, all_drifts, llm_calls>>

\* duckdb.connect raises
SchemaConnectFails ==
    /\ run_pc = "s_connect"
    /\ RaiseAt("s_raised")
    /\ UNCHANGED visited

\* get_current_schema raises
SchemaQueryFails ==
    /\ AtTable("s_loop")
    /\ RaiseAt("s_raised")
    /\ visited' = Append(visited, RunTable)

\* if not baseline: continue
SkipNoBaseline ==
    /\ AtTable("s_loop")
    /\ DOMAIN load_baseline_schema(RunTable) = {}
    /\ TakeTable
    /\ UNCHANGED <<detectVars, schemaVars, sideVars, alertVars, completed, warehouse, Files, calls, run_pc,
                   all_anomalies, all_drifts, llm_calls>>

\* drifts = compare_schemas(table, baseline, current); all_drifts.extend
CompareTable ==
    /\ AtTable("s_loop")
    /\ DOMAIN load_baseline_schema(RunTable) # {}
    /\ \E d \in compare_schemas(RunTable, load_baseline_schema(RunTable),
                                get_current_schema(RunTable)) :
          all_drifts' = all_drifts \o Stamp(d)
    /\ TakeTable
    /\ UNCHANGED <<detectVars, schemaVars, sideVars, alertVars, completed, warehouse, Files, calls, run_pc,
                   all_anomalies, llm_calls>>

\* con.close(); save_to_history(all_drifts); return all_drifts
SchemaMonitorReturns ==
    /\ LoopDone("s_loop")
    /\ schema_history' = save_to_history(all_drifts)
    /\ run_pc' = IF Entry \in Analyzers THEN "explain" ELSE "returned"
    /\ completed' = Append(completed, "schema_monitor")
    /\ UNCHANGED <<detectVars, schemaVars, sideVars, alertVars, warehouse, daily_files,
                   schema_baseline, anomaly_history, calls, run_idx, visited,
                   all_anomalies, all_drifts, llm_calls>>

\* update_baseline: the schema of every table, then df.to_csv(BASELINE_PATH)
UpdateBaseline ==
    /\ run_pc = "u_write"
    /\ schema_baseline' = StoredBaseline
    /\ visited' = TABLES_TO_MONITOR
    /\ run_pc' = "returned"
    /\ UNCHANGED <<detectVars, schemaVars, sideVars, alertVars, completed, warehouse, daily_files,
                   anomaly_history, schema_history, calls, run_idx,
                   all_anomalies, all_drifts, llm_calls>>

\* get_current_schema raises in update_baseline: nothing is written
UpdateBaselineFails ==
    /\ run_pc = "u_write"
    /\ RaiseAt("u_raised")
    /\ UNCHANGED visited

\* for anomaly in anomalies: analyze_with_llm(anomaly, related_drift)
AnomalyCalls ==
    [i \in 1..Len(all_anomalies) |->
        [anomaly       |-> all_anomalies[i],
         related_drift |-> SelectSeq(all_drifts,
                                     LAMBDA d : d.table = all_anomalies[i].table)]]

\* the drift events the second loop explains: the first of each table
\* that is not in explained_tables
Unexplained ==
    {i \in 1..Len(all_drifts) :
        /\ \A j \in 1..Len(all_anomalies) : all_anomalies[j].table # all_drifts[i].table
        /\ \A j \in 1..(i - 1) : all_drifts[j].table # all_drifts[i].table}

\* fake_anomaly = Anomaly(... metric = "schema_drift" ...)
FakeAnomaly(drift) ==
    Anomaly(drift.table, drift.column_name, "schema_drift", 0, SENTINEL_Z, 0,
            drift.severity) @@ [detected_at |-> Now]

RECURSIVE DriftCalls(_)
DriftCalls(i) ==
    IF i > Len(all_drifts) THEN <<>>
    ELSE (IF i \in Unexplained
          THEN <<[anomaly |-> FakeAnomaly(all_drifts[i]),
                  related_drift |-> <<all_drifts[i]>>]>>
          ELSE <<>>) \o DriftCalls(i + 1)

(***************************************************************************)
(* Reports and alerts: llm/root_cause_analyzer.py, alerts/slack_alerts.py  *)
(* and the full-pipeline trigger of api/main.py.                           *)
(***************************************************************************)
\* a severity the model answers in place of the anomaly's
LlmSeverity == "LOW"

\* analyze_with_llm: always a report of the anomaly; its severity is
\* parsed.get("severity", anomaly.severity), or anomaly.severity on an error
analyze_with_llm(anomaly, related_drift) ==
    {RootCauseReport(anomaly.table, anomaly.column, anomaly.metric, sev, Now) :
        sev \in {anomaly.severity, LlmSeverity}}

\* the lists of reports the calls can append, in the order of the calls
RECURSIVE Explanations(_)
Explanations(cs) ==
    IF cs = <<>> THEN {<<>>}
    ELSE {<<r>> \o rest :
            r \in analyze_with_llm(Head(cs).anomaly, Head(cs).related_drift),
            rest \in Explanations(Tail(cs))}

\* save_reports: open(REPORTS_OUTPUT, "w"); json.dump.  json.load returns
\* the strings and the NaN that json.dump wrote.
save_reports(list) == [exists |-> TRUE, reports |-> list]

\* what follows run_root_cause_analyzer in the running entry point
AfterAnalyzer(list) ==
    IF Entry = "trigger_full_pipeline" /\ list # <<>> THEN "k_open" ELSE "returned"

\* if not anomalies and not drift_events: return []
ExplainNothing ==
    /\ run_pc = "explain"
    /\ all_anomalies = <<>>
    /\ all_drifts = <<>>
    /\ reports' = <<>>
    /\ run_pc' = AfterAnalyzer(<<>>)
    /\ UNCHANGED <<detectVars, schemaVars, sideVars, warehouse, Files, calls, run_idx,
                   visited, all_anomalies, all_drifts, llm_calls, reports_file,
                   webhook, posts, completed>>

\* the two loops of run_root_cause_analyzer, then save_reports(reports)
Explain ==
    /\ run_pc = "explain"
    /\ all_anomalies # <<>> \/ all_drifts # <<>>
    /\ llm_calls' = AnomalyCalls \o DriftCalls(1)
    /\ reports' \in Explanations(llm_calls')
    /\ reports_file' = save_reports(reports')
    /\ completed' = Append(completed, "llm_explanation")
    /\ run_pc' = AfterAnalyzer(reports')
    /\ UNCHANGED <<detectVars, schemaVars, sideVars, warehouse, Files, calls, run_idx,
                   visited, all_anomalies, all_drifts, webhook, posts>>

\* anthropic.Anthropic() raises in the first analyze_with_llm
AnalyzeRaises ==
    /\ run_pc = "explain"
    /\ all_anomalies # <<>> \/ all_drifts # <<>>
    /\ RaiseAt("e_raised")
    /\ UNCHANGED visited

CountOf(rs, sev) == Cardinality({i \in 1..Len(rs) : rs[i].severity = sev})

\* format_summary_alert: the counts and one line per report
format_summary_alert(rs) ==
    [kind     |-> "summary",
     issues   |-> Len(rs),
     critical |-> CountOf(rs, "CRITICAL"),
     high     |-> CountOf(rs, "HIGH"),
     medium   |-> CountOf(rs, "MEDIUM"),
     lines    |-> [i \in 1..Len(rs) |-> <<rs[i].table, rs[i].column, rs[i].metric>>]]

\* format_report_alert: one attachment for the report
format_report_alert(r) ==
    [kind |-> "report", severity |-> r.severity, table |-> r.table,
     column |-> r.column, metric |-> r.metric]

\* send_slack_message: no request without WEBHOOK_URL; else one
\* requests.post, answered 200 "ok" or not, or failing with a
\* RequestException
send_slack_message(payload) ==
    IF ~webhook THEN {posts}
    ELSE {Append(posts, [payload |-> payload, ok |-> ok]) : ok \in BOOLEAN}

\* a summary for a single report as well
SendsSummary_single(rs) == Len(rs) >= 1

\* if len(reports) > 1
SendsSummary(rs) == Len(rs) > 1

\* reports = json.load(f)
LoadedReports == reports_file.reports

\* the reports file is absent, or holds an empty list: return
SlackNoReports ==
    /\ run_pc = "k_open"
    /\ ~reports_file.exists \/ LoadedReports = <<>>
    /\ run_pc' = "returned"
    /\ completed' = Append(completed, "slack_alert")
    /\ UNCHANGED <<detectVars, schemaVars, sideVars, alertVars, warehouse, Files, calls,
                   run_idx, visited, all_anomalies, all_drifts, llm_calls>>

\* the summary is sent, or not; the loop over the reports starts
SlackSummary ==
    /\ run_pc = "k_open"
    /\ reports_file.exists
    /\ LoadedReports # <<>>
    /\ IF SendsSummary(LoadedReports)
       THEN posts' \in send_slack_message(format_summary_alert(LoadedReports))
       ELSE posts' = posts
    /\ run_pc' = "k_loop"
    /\ run_idx' = 1
    /\ UNCHANGED <<detectVars, schemaVars, sideVars, warehouse, Files, calls, visited,
                   all_anomalies, all_drifts, llm_calls, reports, reports_file,
                   webhook, completed>>

\* for i, report in enumerate(reports, 1): send_slack_message(...)
SlackSend ==
    /\ run_pc = "k_loop"
    /\ run_idx <= Len(LoadedReports)
    /\ posts' \in send_slack_message(format_report_alert(LoadedReports[run_idx]))
    /\ run_idx' = run_idx + 1
    /\ UNCHANGED <<detectVars, schemaVars, sideVars, warehouse, Files, calls, run_pc,
                   visited, all_anomalies, all_drifts, llm_calls, reports,
                   reports_file, webhook, completed>>

\* the loop is over: run_slack_alerts returns
SlackReturns ==
    /\ run_pc = "k_loop"
    /\ run_idx > Len(LoadedReports)
    /\ run_pc' = "returned"
    /\ completed' = Append(completed, "slack_alert")
    /\ UNCHANGED <<detectVars, schemaVars, sideVars, alertVars, warehouse, Files, calls,
                   run_idx, visited, all_anomalies, all_drifts, llm_calls>>

RunNext ==
    \/ \E e \in EntryPoints : Call(e)
    \/ AnomalyConnect
    \/ AnomalyConnectFails
    \/ SkipNoHistory
    \/ MetricsQueryFails
    \/ DetectRaises
    \/ DetectTable
    \/ AnomalyDetectorReturns
    \/ SchemaConnect
    \/ SchemaConnectFails
    \/ SchemaQueryFails
    \/ SkipNoBaseline
    \/ CompareTable
    \/ SchemaMonitorReturns
    \/ UpdateBaseline
    \/ UpdateBaselineFails
    \/ ExplainNothing
    \/ Explain
    \/ AnalyzeRaises
    \/ SlackNoReports
    \/ SlackSummary
    \/ SlackSend
    \/ SlackReturns

RunSpec == RunInit /\ [][RunNext]_vars

(***************************************************************************)
(* run_slack_alerts on a reports file of up to MaxReports reports.         *)
(***************************************************************************)
MaxReports == 3

ReportPool ==
    {RootCauseReport("orders", "amount", "mean", "LOW", 0),
     RootCauseReport("orders", "__row_count__", "row_count", "HIGH", 0),
     RootCauseReport("payments", "amount", "null_pct", "LOW", 0),
     RootCauseReport("payments", "status", "schema_drift", "MEDIUM", 0),
     RootCauseReport("payments", "amount", "mean", "CRITICAL", 0)}

RECURSIVE ReportLists(_)
ReportLists(n) ==
    IF n = 0 THEN {<<>>}
    ELSE ReportLists(n - 1)
         \cup {Append(rs, r) : rs \in {l \in ReportLists(n - 1) : Len(l) = n - 1},
                               r \in ReportPool}

ReportFiles == {NoReports} \cup {save_reports(rs) : rs \in ReportLists(MaxReports)}

SlackInit ==
    /\ DetectIdle
    /\ pc = "none"
    /\ SchemaIdle
    /\ SideIdle
    /\ warehouse = <<>>
    /\ daily_files = <<>>
    /\ schema_baseline = NoBaseline
    /\ anomaly_history = NoFile
    /\ schema_history = NoFile
    /\ reports_file \in ReportFiles
    /\ webhook \in BOOLEAN
    /\ calls = <<>>
    /\ run_pc = "idle"
    /\ run_idx = 1
    /\ visited = <<>>
    /\ all_anomalies = <<>>
    /\ all_drifts = <<>>
    /\ llm_calls = <<>>
    /\ reports = <<>>
    /\ posts = <<>>
    /\ completed = <<>>

SlackNext ==
    \/ Call("run_slack_alerts")
    \/ SlackNoReports
    \/ SlackSummary
    \/ SlackSend
    \/ SlackReturns

SlackSpec == SlackInit /\ [][SlackNext]_vars

(***************************************************************************)
(* The readers of the reports file: lineage_graph.get_anomalous_tables     *)
(* and GET /api/lineage (api/main.py; frontend/app.py holds a copy).       *)
(***************************************************************************)
priority == <<"LOW", "MEDIUM", "HIGH", "CRITICAL">>

\* priority.index(severity)
PriorityIndex(sev) == CHOOSE i \in 1..Len(priority) : priority[i] = sev

\* get_anomalous_tables: existing = anomalous.get(table, "LOW"); the entry
\* is set when the severity of the report is above existing
RECURSIVE GraphStatus(_, _)
GraphStatus(rs, acc) ==
    IF rs = <<>> THEN acc
    ELSE LET report   == Head(rs)
             existing == IF report.table \in DOMAIN acc THEN acc[report.table]
                         ELSE "LOW"
         IN  GraphStatus(Tail(rs),
                         IF PriorityIndex(report.severity) > PriorityIndex(existing)
                         THEN (report.table :> report.severity) @@ acc
                         ELSE acc)

get_anomalous_tables ==
    IF ~reports_file.exists THEN <<>> ELSE GraphStatus(reports_file.reports, <<>>)

\* load_json: [] without the file
load_json == IF ~reports_file.exists THEN <<>> ELSE reports_file.reports

\* get_lineage: existing = anomalous.get(table, "OK"); the entry is set
\* when existing is "OK" or the severity of the report is above existing
RECURSIVE ApiStatus(_, _)
ApiStatus(rs, acc) ==
    IF rs = <<>> THEN acc
    ELSE LET r == Head(rs)
         IN  ApiStatus(Tail(rs),
                       IF \/ r.table \notin DOMAIN acc
                          \/ PriorityIndex(r.severity) > PriorityIndex(acc[r.table])
                       THEN (r.table :> r.severity) @@ acc
                       ELSE acc)

get_lineage == ApiStatus(load_json, <<>>)

LineageInit ==
    /\ DetectIdle
    /\ pc = "readers"
    /\ SchemaIdle
    /\ SideIdle
    /\ warehouse = <<>>
    /\ daily_files = <<>>
    /\ schema_baseline = NoBaseline
    /\ anomaly_history = NoFile
    /\ schema_history = NoFile
    /\ reports_file \in ReportFiles
    /\ webhook = FALSE
    /\ calls = <<>>
    /\ run_pc = "none"
    /\ run_idx = 1
    /\ visited = <<>>
    /\ all_anomalies = <<>>
    /\ all_drifts = <<>>
    /\ llm_calls = <<>>
    /\ reports = <<>>
    /\ posts = <<>>
    /\ completed = <<>>

\* the lineage page calls get_anomalous_tables()
GetAnomalousTables ==
    /\ pc \in {"readers", "api_read"}
    /\ anomalous_tables' = get_anomalous_tables
    /\ pc' = IF pc = "readers" THEN "graph_read" ELSE "both_read"
    /\ UNCHANGED <<table, current_metrics, history_df, idx, anomalies, z_in,
                   metric_in, severity_out, schemaVars, runVars, tests,
                   anomalous, savers>>

\* a client calls GET /api/lineage
GetLineage ==
    /\ pc \in {"readers", "graph_read"}
    /\ anomalous' = get_lineage
    /\ pc' = IF pc = "readers" THEN "api_read" ELSE "both_read"
    /\ UNCHANGED <<table, current_metrics, history_df, idx, anomalies, z_in,
                   metric_in, severity_out, schemaVars, runVars, tests,
                   anomalous_tables, savers>>

LineageNext ==
    \/ GetAnomalousTables
    \/ GetLineage

LineageSpec == LineageInit /\ [][LineageNext]_vars

(***************************************************************************)
(* monitoring/test_generator.py: generate_row_count_tests.  The row counts *)
(* of a daily file are whole numbers of rows, 0 .. MaxRowCount.            *)
(***************************************************************************)
\* ROW_COUNT_BUFFER = 0.20, in percent
ROW_COUNT_BUFFER_PCT == 20

\* len(history) < 7
MIN_ROW_HISTORY == 7

MaxRowCount == 12

\* load_row_count_history returns None: no daily file, or no row_count
\* column in it
NoRowCounts(t) ==
    IF HasDailyFile(t) THEN <<"row_count">> \notin DOMAIN daily_files[t]
    ELSE TRUE

\* df["row_count"].dropna() of load_row_count_history
RowCountSeries(t) == DropNa(daily_files[t][<<"row_count">>])

\* .values.astype(float) raises on a non-numeric row count
LoadRaises(t) ==
    IF NoRowCounts(t) THEN FALSE ELSE AsTypeRaises(RowCountSeries(t))

\* the test for a history of exactly seven points left out
TooShort_inclusive(h) == Len(h) <= MIN_ROW_HISTORY

\* len(history) < 7
TooShort(h) == Len(h) < MIN_ROW_HISTORY

RECURSIVE GCD(_, _)
GCD(a, b) == IF b = 0 THEN a ELSE GCD(b, a % b)

RECURSIVE IsPowerOfTwo(_)
IsPowerOfTwo(k) == k = 1 \/ (k % 2 = 0 /\ IsPowerOfTwo(k \div 2))

\* float(np.mean(history)) is the exact quotient: the quotient of the sum
\* S by the count n is a binary fraction
ExactMean(S, n) == S = 0 \/ IsPowerOfTwo(n \div GCD(S, n))

\* int(mean_count * (1 - ROW_COUNT_BUFFER)).  1 - 0.20 is the double next
\* above 0.8, and the product is a whole number only for an exact mean:
\* the result is the floor of the exact product.
MinRows(h) ==
    (HistSum(h) * (100 - ROW_COUNT_BUFFER_PCT)) \div (100 * Len(h))

\* int(mean_count * (1 + ROW_COUNT_BUFFER)).  1 + 0.20 is the double next
\* below 1.2: where the exact product is a whole number k and the mean is
\* a rounded quotient, the binary product is k or the double below k, and
\* int() gives k or k - 1.
MaxRows(h) ==
    LET S == HistSum(h)
        n == Len(h)
        k == (S * (100 + ROW_COUNT_BUFFER_PCT)) \div (100 * n)
    IN  IF (S * (100 + ROW_COUNT_BUFFER_PCT)) % (100 * n) = 0 /\ ~ExactMean(S, n)
        THEN {k - 1, k}
        ELSE {k}

\* DataTest without reason and generated_at
DataTest(t, col, test_type, parameters) ==
    [table |-> t, column |-> col, test_type |-> test_type,
     parameters |-> parameters]

\* the lists generate_row_count_tests can return
generate_row_count_tests(t) ==
    IF NoRowCounts(t) THEN {<<>>}
    ELSE IF TooShort(RowCountSeries(t)) THEN {<<>>}
    ELSE {<<DataTest(t, "__row_count__", "row_count_between",
                     [min_rows |-> MinRows(AsType(RowCountSeries(t))),
                      max_rows |-> hi])>> :
            hi \in MaxRows(AsType(RowCountSeries(t)))}

\* the row_count columns of the daily files
RowCountColumns ==
    {Alt(a, b, n) : a \in 0..MaxRowCount, b \in 0..MaxRowCount,
                    n \in (MIN_ROW_HISTORY - 2)..(MIN_ROW_HISTORY + 2)}
    \cup {WithHole(Alt(a, a, n)) : a \in 0..MaxRowCount,
                                   n \in {MIN_ROW_HISTORY, MIN_ROW_HISTORY + 1}}
    \cup {<<Str>> \o Alt(3, 3, MIN_ROW_HISTORY)}

GenDailyFiles ==
    {DailyFilesOf(Tables, {}),
     "orders" :> (<<"amount", "__", "mean">> :> Alt(100, 100, 8))}
    \cup {"orders" :> (<<"row_count">> :> s) : s \in RowCountColumns}

GenInit ==
    /\ table = "orders"
    /\ current_metrics = <<>>
    /\ history_df = <<>>
    /\ idx = 1
    /\ anomalies = <<>>
    /\ z_in = [num |-> 0, rad |-> 1]
    /\ metric_in = "none"
    /\ severity_out = "none"
    /\ pc = "generate"
    /\ SchemaIdle
    /\ SideIdle
    /\ warehouse = <<>>
    /\ daily_files \in GenDailyFiles
    /\ schema_baseline = NoBaseline
    /\ anomaly_history = NoFile
    /\ schema_history = NoFile
    /\ reports_file = NoReports
    /\ webhook = FALSE
    /\ calls = <<>>
    /\ run_pc = "none"
    /\ run_idx = 1
    /\ visited = <<>>
    /\ all_anomalies = <<>>
    /\ all_drifts = <<>>
    /\ llm_calls = <<>>
    /\ reports = <<>>
    /\ posts = <<>>
    /\ completed = <<>>

\* .values.astype(float) of load_row_count_history raises
GenerateRaises ==
    /\ pc = "generate"
    /\ LoadRaises(table)
    /\ pc' = "raised"
    /\ UNCHANGED <<table, current_metrics, history_df, idx, anomalies, z_in,
                   metric_in, severity_out, schemaVars, runVars, sideVars>>

\* tests = generate_row_count_tests(table, profile)
GenerateRowCountTests ==
    /\ pc = "generate"
    /\ ~LoadRaises(table)
    /\ tests' \in generate_row_count_tests(table)
    /\ pc' = "generated"
    /\ UNCHANGED <<table, current_metrics, history_df, idx, anomalies, z_in,
                   metric_in, severity_out, schemaVars, runVars,
                   anomalous_tables, anomalous, savers>>

GenNext ==
    \/ GenerateRaises
    \/ GenerateRowCountTests

GenSpec == GenInit /\ [][GenNext]_vars

(***************************************************************************)
(* Runs whose save steps share a history file.  save_anomalies and         *)
(* save_to_history read the file and write it back in two steps; nothing   *)
(* locks the file between them.  Run r stamps its records with r.          *)
(***************************************************************************)
MaxRuns == 2

MaxNew == 2

\* the records run r saves: n anomalies, or n drift events
NewRecords(e, r, n) ==
    [i \in 1..n |->
        (IF e = "run_anomaly_detector"
         THEN Anomaly("orders", NameList[i], "mean", 50, SENTINEL_Z, -5000, "CRITICAL")
         ELSE SchemaDrift("orders", "column_added", NameList[i], "", "VARCHAR", "LOW"))
        @@ [detected_at |-> r]]

Savers ==
    {"run_anomaly_detector", "run_schema_monitor"}

\* HISTORY_PATH of the entry point and its column of names
HistoryOf(e) ==
    IF e = "run_anomaly_detector" THEN anomaly_history ELSE schema_history

NameField(e) == IF e = "run_anomaly_detector" THEN "column" ELSE "column_name"

SaveInit ==
    /\ DetectIdle
    /\ pc = "saving"
    /\ SchemaIdle
    /\ tests = <<>>
    /\ anomalous_tables = <<>>
    /\ anomalous = <<>>
    /\ \E e \in [1..MaxRuns -> Savers], n \in [1..MaxRuns -> 0..MaxNew] :
          savers = [r \in 1..MaxRuns |->
                       [entry |-> e[r], new |-> NewRecords(e[r], r, n[r]),
                        pc |-> "save", existing |-> NoFile,
                        overlapped |-> FALSE]]
    /\ warehouse = <<>>
    /\ daily_files = <<>>
    /\ schema_baseline = NoBaseline
    /\ \E prior \in BOOLEAN :
          /\ anomaly_history = IF prior THEN PriorAnomalies ELSE NoFile
          /\ schema_history = IF prior THEN PriorDrifts ELSE NoFile
    /\ reports_file = NoReports
    /\ webhook = FALSE
    /\ calls = <<>>
    /\ run_pc = "none"
    /\ run_idx = 1
    /\ visited = <<>>
    /\ all_anomalies = <<>>
    /\ all_drifts = <<>>
    /\ llm_calls = <<>>
    /\ reports = <<>>
    /\ posts = <<>>
    /\ completed = <<>>

\* run q has read the file of run r and has not written it yet
InFlightWith(r, q) ==
    /\ q # r
    /\ savers[q].entry = savers[r].entry
    /\ savers[q].pc = "read"

\* if not anomalies: return
SaveNothing(r) ==
    /\ savers[r].pc = "save"
    /\ savers[r].new = <<>>
    /\ savers' = [savers EXCEPT ![r].pc = "done"]
    /\ UNCHANGED <<detectVars, schemaVars, runVars, tests, anomalous_tables,
                   anomalous>>

\* if os.path.exists(HISTORY_PATH): existing = pd.read_csv(HISTORY_PATH)
SaveRead(r) ==
    /\ savers[r].pc = "save"
    /\ savers[r].new # <<>>
    /\ savers' =
          [q \in DOMAIN savers |->
              IF q = r
              THEN [savers[r] EXCEPT
                       !.pc = "read",
                       !.existing = HistoryOf(savers[r].entry),
                       !.overlapped = \E o \in DOMAIN savers : InFlightWith(r, o)]
              ELSE IF InFlightWith(r, q)
                   THEN [savers[q] EXCEPT !.overlapped = TRUE]
                   ELSE savers[q]]
    /\ UNCHANGED <<detectVars, schemaVars, runVars, tests, anomalous_tables,
                   anomalous>>

\* combined = pd.concat([existing, new_df]); combined.to_csv(HISTORY_PATH)
SaveWrite(r) ==
    /\ savers[r].pc = "read"
    /\ anomaly_history' =
          IF savers[r].entry = "run_anomaly_detector"
          THEN AppendRows(savers[r].existing, "column", savers[r].new)
          ELSE anomaly_history
    /\ schema_history' =
          IF savers[r].entry = "run_schema_monitor"
          THEN AppendRows(savers[r].existing, "column_name", savers[r].new)
          ELSE schema_history
    /\ savers' = [savers EXCEPT ![r].pc = "done"]
    /\ UNCHANGED <<detectVars, schemaVars, warehouse, daily_files,
                   schema_baseline, calls, run_pc, run_idx, visited,
                   all_anomalies, all_drifts, llm_calls, alertVars, completed,
                   tests, anomalous_tables, anomalous>>

SaveNext ==
    \/ \E r \in DOMAIN savers : SaveNothing(r)
    \/ \E r \in DOMAIN savers : SaveRead(r)
    \/ \E r \in DOMAIN savers : SaveWrite(r)

SaveSpec == SaveInit /\ [][SaveNext]_vars

(***************************************************************************)
(* Properties.  A key k of the snapshot is read through the operators      *)
(* below; Passed(k) holds once the loop has finished the iteration of k.   *)
(***************************************************************************)
KeyIds == 1..Len(current_metrics)

Passed(k) == k < idx

KeyWellFormed(k) ==
    /\ Len(current_metrics[k].key) = 2
    /\ current_metrics[k].key[2] \in MetricKinds

KeyMetric(k) == current_metrics[k].key[2]

KeyColumn(k) == current_metrics[k].key[1]

Today(k) == current_metrics[k].value

KeyHasSeries(k) ==
    /\ KeyWellFormed(k)
    /\ HistCol(KeyColumn(k), KeyMetric(k)) \in DOMAIN history_df

RawSeries(k) == history_df[HistCol(KeyColumn(k), KeyMetric(k))]

\* the series holds numbers and missing values only
AllNumeric(s) == \A i \in 1..Len(s) : s[i][1] # "str"

PresentCount(s) == Cardinality({i \in 1..Len(s) : s[i][1] # "nan"})

\* the baseline of key k: the numbers the window of its series holds
Baseline(k) == HistoryValues(RawSeries(k))

HasBaseline(k) ==
    /\ KeyHasSeries(k)
    /\ AllNumeric(RawSeries(k))
    /\ Len(Baseline(k)) >= MIN_HISTORY_DAYS

\* every value of the baseline is the same: no variance
Flat(h) == \A i \in 1..Len(h) : h[i] = h[1]

\* the Anomalies emitted for key k
Emitted(k) ==
    SelectSeq(anomalies,
              LAMBDA a : a.column = KeyColumn(k) /\ a.metric = KeyMetric(k))

\* key k went through the zero-variance branch / the z-score branch
InFlatBranch(k) == Passed(k) /\ HasBaseline(k) /\ Flat(Baseline(k))

InZBranch(k) == Passed(k) /\ HasBaseline(k) /\ ~Flat(Baseline(k))

Z(k) == ZScore(Today(k), Baseline(k))

\* |z| = t
AbsZEq(z, t) == z.num * z.num = t * t * z.rad

\* the severity table on a magnitude given in tenths
BandOfTenths(a, metric) ==
    CASE metric = "row_count" ->
            IF a > 60 THEN "CRITICAL" ELSE IF a > 40 THEN "HIGH"
            ELSE IF a > 30 THEN "MEDIUM" ELSE "LOW"
      [] metric = "null_pct" ->
            IF a > 50 THEN "CRITICAL" ELSE IF a > 40 THEN "HIGH"
            ELSE IF a > 30 THEN "MEDIUM" ELSE "LOW"
      [] OTHER ->
            IF a > 50 THEN "HIGH" ELSE IF a > 30 THEN "MEDIUM" ELSE "LOW"

\* C1: for a z-score of either sign assign_severity returns the band of the
\* severity table at |z| with strict comparisons, hence the same band for z
\* and for -z.
ThmC1_SeverityTable ==
    pc = "classified" =>
        /\ severity_out = BandOfTenths(Abs(z_in.num), metric_in)
        /\ severity_out = assign_severity([z_in EXCEPT !.num = -z_in.num], metric_in)

WitC1_NegativeCritical ==
    /\ pc = "classified"
    /\ z_in.num = -61
    /\ metric_in = "row_count"
    /\ severity_out = "CRITICAL"

ThmC3_InsufficientHistory ==
    \A k \in KeyIds :
        (/\ KeyHasSeries(k)
         /\ AllNumeric(RawSeries(k))
         /\ PresentCount(RawSeries(k)) < 7) =>
            /\ ~(pc = "raised" /\ idx = k)
            /\ Passed(k) => Emitted(k) = <<>>
            /\ pc = "returned" => Passed(k)

WitC3_ExtremeValueShortHistory ==
    \E k \in KeyIds :
        /\ pc = "returned"
        /\ KeyHasSeries(k)
        /\ AllNumeric(RawSeries(k))
        /\ PresentCount(RawSeries(k)) = 6
        /\ ~Flat(Baseline(k))
        /\ Today(k) = 1000
        /\ Emitted(k) = <<>>

\* C4: in the zero-variance branch a null_pct key emits exactly one Anomaly
\* if and only if the baseline mean is below 0.01 and today's value is above
\* 0.05; its severity is CRITICAL when today's value is above 0.20 and HIGH
\* otherwise, and its deviation score is 999.0.
ThmC4_ZeroVarianceNullPct ==
    \A k \in KeyIds :
        (InFlatBranch(k) /\ KeyMetric(k) = "null_pct") =>
            LET fires == Baseline(k)[1] < 10 /\ Today(k) > 50
            IN  /\ Len(Emitted(k)) = (IF fires THEN 1 ELSE 0)
                /\ fires =>
                    /\ Emitted(k)[1].severity =
                          (IF Today(k) > 200 THEN "CRITICAL" ELSE "HIGH")
                    /\ Emitted(k)[1].z_score = 999000

WitC4_NullSpikeCritical ==
    \E k \in KeyIds :
        /\ InFlatBranch(k)
        /\ KeyMetric(k) = "null_pct"
        /\ Baseline(k)[1] = 0
        /\ Today(k) = 450
        /\ Len(anomalies) = 1
        /\ anomalies[1].severity = "CRITICAL"
        /\ anomalies[1].z_score = 999000

\* C5 as stated: in the zero-variance branch a mean key with a non-zero
\* baseline mean of either sign emits an Anomaly exactly when
\* |today - baseline| / |baseline| exceeds 0.20, of severity CRITICAL when it
\* exceeds 0.50 and HIGH otherwise.
CexC5_ZeroVarianceMeanEitherSign ==
    \A k \in KeyIds :
        (InFlatBranch(k) /\ KeyMetric(k) = "mean" /\ Baseline(k)[1] # 0) =>
            LET b == Baseline(k)[1]
                change == Abs(Today(k) - b)
                fires == 100 * change > 20 * Abs(b)
            IN  /\ Len(Emitted(k)) = (IF fires THEN 1 ELSE 0)
                /\ fires =>
                    Emitted(k)[1].severity =
                        (IF 100 * change > 50 * Abs(b) THEN "CRITICAL" ELSE "HIGH")

CexC8_SuppressedUnlessAboveFivePct ==
    \A k \in KeyIds :
        (InZBranch(k) /\ KeyMetric(k) = "null_pct" /\ AbsZGe(Z(k), 3)) =>
            LET S == HistSum(Baseline(k))
                above == S # 0 /\ 100 * Abs(Dev(Today(k), Baseline(k))) > 5 * Abs(S)
            IN  IF AbsZGt(Z(k), 3)
                THEN Len(Emitted(k)) = 1
                ELSE Len(Emitted(k)) = (IF above THEN 1 ELSE 0)

\* C8 amended: in the z-score branch a null_pct key that fires and is
\* classified LOW is suppressed unless its absolute percent change is at
\* least 5%; one classified MEDIUM or higher is never suppressed.
ThmC8_SuppressedUnlessFivePct ==
    \A k \in KeyIds :
        (InZBranch(k) /\ KeyMetric(k) = "null_pct" /\ AbsZGe(Z(k), 3)) =>
            LET S == HistSum(Baseline(k))
                atLeast == S # 0 /\ 100 * Abs(Dev(Today(k), Baseline(k))) >= 5 * Abs(S)
            IN  IF AbsZGt(Z(k), 3)
                THEN Len(Emitted(k)) = 1
                ELSE Len(Emitted(k)) = (IF atLeast THEN 1 ELSE 0)

WitC8_ExactlyFivePctEmitted ==
    \E k \in KeyIds :
        /\ InZBranch(k)
        /\ KeyMetric(k) = "null_pct"
        /\ AbsZEq(Z(k), 3)
        /\ 100 * Abs(Dev(Today(k), Baseline(k))) = 5 * Abs(HistSum(Baseline(k)))
        /\ Len(anomalies) = 1
        /\ anomalies[1].severity = "LOW"

\* the key an Anomaly was emitted for
KeyOfAnomaly(a) ==
    CHOOSE k \in KeyIds :
        KeyWellFormed(k) /\ KeyColumn(k) = a.column /\ KeyMetric(k) = a.metric

\* C9 as stated: an Anomaly has deviation score 999.0 if and only if the
\* zero-variance branch emitted it; an Anomaly of the z-score branch never
\* carries 999.0.
CexC9_SentinelOnlyFromZeroVariance ==
    \A i \in 1..Len(anomalies) :
        (anomalies[i].z_score = 999000) <=> Flat(Baseline(KeyOfAnomaly(anomalies[i])))

\* C10 as stated: the percent change of every Anomaly is negative when
\* today's value is below the baseline mean and positive when it is above,
\* so that the summary says "dropped" for a drop and "spiked" for a rise.
CexC10_SignedPercentChange ==
    \A i \in 1..Len(anomalies) :
        LET a == anomalies[i]
            d == Dev(a.current_value, Baseline(KeyOfAnomaly(a)))
        IN  /\ d < 0 => (a.pct_change < 0 /\ SummaryDirection(a) = "dropped")
            /\ d > 0 => (a.pct_change > 0 /\ SummaryDirection(a) = "spiked")


(***************************************************************************)
(* Claims on the window, the keys of one call, and malformed input.        *)
(***************************************************************************)
\* the values of the 30 most recent entries of a series, the missing ones
\* left out
RecentEntries(s) == AsType(DropNa(TailN(s, ROLLING_WINDOW)))

\* C16 as stated: the outcome for a key is decided by the 30 most recent
\* entries of its history series alone, also when some of these entries are
\* missing: an older entry never changes whether an Anomaly fires or what
\* it carries.
CexC16_OnlyThirtyMostRecentEntries ==
    \A k \in KeyIds :
        (Passed(k) /\ KeyHasSeries(k) /\ AllNumeric(RawSeries(k)))
        => Emitted(k) = DetectKey(table, KeyColumn(k), KeyMetric(k), Today(k),
                                  RecentEntries(RawSeries(k)))

\* C17: the loop has visited each key before idx once and emitted at most
\* one Anomaly for it: no two Anomalies of the list share (column, metric),
\* the list is no longer than the number of keys visited, which is at most
\* the number of keys of the snapshot, and every Anomaly carries the table
\* name passed in.
ThmC17_OneAnomalyPerKey ==
    /\ \A i, j \in 1..Len(anomalies) :
          i < j => <<anomalies[i].column, anomalies[i].metric>>
                     # <<anomalies[j].column, anomalies[j].metric>>
    /\ \A k \in KeyIds : (Passed(k) /\ KeyWellFormed(k)) => Len(Emitted(k)) <= 1
    /\ pc \in {"loop", "returned", "raised"}
          => /\ Len(anomalies) <= idx - 1
             /\ idx - 1 <= Len(current_metrics)
    /\ \A i \in 1..Len(anomalies) : anomalies[i].table = table

\* two keys of the payments table, each with its Anomaly
WitC17_TwoKeysTwoAnomalies ==
    /\ pc = "returned"
    /\ table = "payments"
    /\ Len(current_metrics) = 2
    /\ Len(anomalies) = 2
    /\ anomalies[1].metric # anomalies[2].metric

\* the item is malformed: its key has not the form col||metric, its metric
\* kind is unknown, its history column is absent, or its history series
\* holds a non-numeric value
Malformed(item, hist) ==
    \/ Len(item.key) # 2
    \/ item.key[2] \notin MetricKinds
    \/ HistCol(item.key[1], item.key[2]) \notin DOMAIN hist
    \/ ~AllNumeric(hist[HistCol(item.key[1], item.key[2])])

WithoutMalformed(metrics, hist) ==
    SelectSeq(metrics, LAMBDA item : ~Malformed(item, hist))

\* C20 as stated: a call never raises, and it returns the Anomalies it
\* returns for the snapshot without its malformed items.
CexC20_MalformedKeySkipped ==
    /\ pc # "raised"
    /\ pc = "returned"
          => anomalies = detect_anomalies_for_table(
                             table, WithoutMalformed(current_metrics, history_df),
                             history_df).anomalies


(***************************************************************************)
(* Claims on compare_schemas.                                              *)
(***************************************************************************)
\* the records of the returned list for column col
DriftsOf(col) == SelectSeq(drifts, LAMBDA d : d.column_name = col)

\* C12: for every table name and every pair of schemas, the returned list
\* holds exactly one column_dropped record of severity CRITICAL for each
\* column of the baseline that the current schema lacks, one column_added
\* record of severity LOW for each column of the current schema that the
\* baseline lacks, one type_changed record of severity HIGH for each column
\* of both whose type strings are not the same string, and nothing else:
\* no record for a column of both with the same type string, no column in
\* two records, and every record carries the table name given.
ThmC12_CompareSchemasExact ==
    pc = "compared" =>
        /\ \A col \in (DOMAIN baseline) \ (DOMAIN current) :
              /\ Len(DriftsOf(col)) = 1
              /\ DriftsOf(col)[1].drift_type = "column_dropped"
              /\ DriftsOf(col)[1].severity = "CRITICAL"
        /\ \A col \in (DOMAIN current) \ (DOMAIN baseline) :
              /\ Len(DriftsOf(col)) = 1
              /\ DriftsOf(col)[1].drift_type = "column_added"
              /\ DriftsOf(col)[1].severity = "LOW"
        /\ \A col \in (DOMAIN baseline) \cap (DOMAIN current) :
              IF baseline[col] = current[col]
              THEN Len(DriftsOf(col)) = 0
              ELSE /\ Len(DriftsOf(col)) = 1
                   /\ DriftsOf(col)[1].drift_type = "type_changed"
                   /\ DriftsOf(col)[1].severity = "HIGH"
        /\ \A i \in 1..Len(drifts) :
              /\ drifts[i].column_name \in (DOMAIN baseline) \cup (DOMAIN current)
              /\ drifts[i].table = schema_table

\* a dropped, an added and a retyped column at once, the retyped one
\* differing by letter case only
WitC12_ThreeKinds ==
    /\ pc = "compared"
    /\ schema_table = "payments"
    /\ Len(drifts) = 3
    /\ {drifts[i].drift_type : i \in 1..3}
          = {"column_dropped", "column_added", "type_changed"}
    /\ \E col \in (DOMAIN baseline) \cap (DOMAIN current) :
          baseline[col] = "VARCHAR" /\ current[col] = "varchar"

\* column a of the baseline was renamed to b: the schemas agree on every
\* other column and b has the type a had
IsRename(a, b) ==
    /\ a \in (DOMAIN baseline) \ (DOMAIN current)
    /\ b \in (DOMAIN current) \ (DOMAIN baseline)
    /\ (DOMAIN baseline) \ {a} = (DOMAIN current) \ {b}
    /\ \A col \in (DOMAIN baseline) \ {a} : baseline[col] = current[col]
    /\ baseline[a] = current[b]

\* C14: a rename of column a of type T to b yields exactly two records, a
\* column_dropped for a with old_value T and a column_added for b with
\* new_value T; no record has another kind.
ThmC14_RenameIsDropAndAdd ==
    pc = "compared" =>
        \A a, b \in ColumnNames :
            IsRename(a, b) =>
                /\ Len(drifts) = 2
                /\ {drifts[1], drifts[2]}
                      = {SchemaDrift(schema_table, "column_dropped", a,
                                     baseline[a], "", "CRITICAL"),
                         SchemaDrift(schema_table, "column_added", b,
                                     "", baseline[a], "LOW")}

\* a rename beside an untouched column
WitC14_RenameCompared ==
    /\ pc = "compared"
    /\ \E a, b \in ColumnNames : IsRename(a, b)
    /\ Cardinality(DOMAIN baseline) = 2

\* C15: the kind of a record fixes its values: column_added has an empty
\* old_value and the current type as new_value, column_dropped an empty
\* new_value and the baseline type as old_value, type_changed the baseline
\* type and the current type, both non-empty and not equal.
ThmC15_ValuesByKind ==
    pc = "compared" =>
        \A i \in 1..Len(drifts) :
            LET d == drifts[i]
            IN  /\ d.drift_type \in {"column_added", "column_dropped", "type_changed"}
                /\ d.drift_type = "column_added"
                      => d.old_value = "" /\ d.new_value = current[d.column_name]
                /\ d.drift_type = "column_dropped"
                      => d.new_value = "" /\ d.old_value = baseline[d.column_name]
                /\ d.drift_type = "type_changed"
                      => /\ d.old_value = baseline[d.column_name]
                         /\ d.new_value = current[d.column_name]
                         /\ d.old_value # ""
                         /\ d.new_value # ""
                         /\ d.old_value # d.new_value

\* one record of each kind
WitC15_EachKindOnce ==
    /\ pc = "compared"
    /\ \E i, j, k \in 1..Len(drifts) :
          /\ drifts[i].drift_type = "column_added" /\ drifts[i].new_value = "DOUBLE"
          /\ drifts[j].drift_type = "column_dropped" /\ drifts[j].old_value = "VARCHAR"
          /\ drifts[k].drift_type = "type_changed" /\ drifts[k].old_value = "DOUBLE"


(***************************************************************************)
(* Claims on the entry points.                                             *)
(***************************************************************************)
\* the rows of a history file written during the running call
RowsOfNow(file) == {i \in 1..Len(file.rows) : file.rows[i].detected_at = Now}

\* the function whose loop is running or has just returned has run to its
\* end
LoopReturned ==
    /\ Len(calls) > 0
    /\ Entry # "run_slack_alerts"
    /\ \/ run_pc \in {"returned", "explain", "k_open", "k_loop"}
       \/ run_pc = "s_connect" /\ Entry \in Analyzers

\* C11 as stated: every Anomaly of the pipeline, in the detector's output,
\* in the history file and in the explainer's input, has one of the four
\* metric kinds, and every Anomaly given to the explainer is one the
\* detector returned.
CexC11_AnomaliesOnlyFromDetector ==
    /\ \A i \in 1..Len(all_anomalies) : all_anomalies[i].metric \in MetricKinds
    /\ \A i \in 1..Len(anomaly_history.rows) :
          anomaly_history.rows[i].metric \in MetricKinds
    /\ \A i \in 1..Len(llm_calls) :
          /\ llm_calls[i].anomaly.metric \in MetricKinds
          /\ \E j \in 1..Len(all_anomalies) : all_anomalies[j] = llm_calls[i].anomaly

\* C13 as stated: once update_baseline has stored the schemas of the
\* warehouse, a run of run_schema_monitor on the same warehouse returns an
\* empty list and appends no row to the drift history.
CexC13_RebaselineThenNoDrift ==
    (/\ run_pc = "returned"
     /\ calls = <<"update_baseline", "run_schema_monitor">>
     /\ schema_baseline = StoredBaseline)
    => /\ all_drifts = <<>>
       /\ RowsOfNow(schema_history) = {}

\* C18, in every state: the loop takes the tables of TABLES_TO_MONITOR in
\* order, each at most once; when the function has returned it has taken
\* every table; no Anomaly belongs to a table without history file and no
\* SchemaDrift to a table without baseline schema.
TablesAttemptedOnce ==
    /\ IsPrefix(visited, TABLES_TO_MONITOR)
    /\ LoopReturned => visited = TABLES_TO_MONITOR
    /\ \A i \in 1..Len(all_anomalies) : HasDailyFile(all_anomalies[i].table)
    /\ \A i \in 1..Len(all_drifts) :
          DOMAIN load_baseline_schema(all_drifts[i].table) # {}

\* C18, in every step: at a table without history file run_anomaly_detector
\* does not raise, adds no record and goes on to the next table; at a table
\* without baseline schema run_schema_monitor, unless the warehouse query
\* raises, adds no record and goes on to the next table.
SkipGoesOn ==
    /\ (AtTable("a_loop") /\ ~HasDailyFile(RunTable))
          => /\ run_pc' = "a_loop"
             /\ run_idx' = run_idx + 1
             /\ visited' = Append(visited, RunTable)
             /\ all_anomalies' = all_anomalies
    /\ (AtTable("s_loop") /\ DOMAIN load_baseline_schema(RunTable) = {}
           /\ run_pc' # "s_raised")
          => /\ run_pc' = "s_loop"
             /\ run_idx' = run_idx + 1
             /\ visited' = Append(visited, RunTable)
             /\ all_drifts' = all_drifts

\* C18: in a run of run_anomaly_detector and in a run of run_schema_monitor
\* every table of TABLES_TO_MONITOR is attempted exactly once; a table
\* without history file, or without baseline schema, is skipped without
\* raising and without record, and the tables after it are processed.
ThmC18_EveryTableAttemptedOnce == []TablesAttemptedOnce /\ [][SkipGoesOn]_vars

\* both loops have run to their end past products, which has neither
\* history file nor baseline schema, and hold records of later tables
WitC18_SkippedThenProcessed ==
    /\ run_pc = "explain"
    /\ ~HasDailyFile("products")
    /\ DOMAIN load_baseline_schema("products") = {}
    /\ visited = TABLES_TO_MONITOR
    /\ \E i \in 1..Len(all_anomalies) : all_anomalies[i].table = "payments"
    /\ \E i \in 1..Len(all_drifts) : all_drifts[i].table = "orders"

\* C19, in every state: a run of run_anomaly_detector that raised has
\* written no row of this run to the anomaly history, a run of
\* run_schema_monitor that raised none to the drift history.
RaisedWroteNothing ==
    /\ run_pc = "a_raised" => RowsOfNow(anomaly_history) = {}
    /\ run_pc = "s_raised" => RowsOfNow(schema_history) = {}

\* C19, in every step: a run that raised does not return; only a new call
\* follows.
RaisedStaysRaised ==
    run_pc \in {"a_raised", "s_raised"} => (run_pc' = run_pc \/ calls' # calls)

\* C19: when the connection or a query fails the run raises to its caller
\* instead of returning a list, and no record of the run is in the history
\* file, the records of the tables processed before the failure included.
ThmC19_FailureWritesNothing == []RaisedWroteNothing /\ [][RaisedStaysRaised]_vars

\* the fifth table's query fails after an Anomaly of an earlier table was
\* collected, on a history file that holds an older row
WitC19_FailsAfterAnomaly ==
    /\ run_pc = "a_raised"
    /\ run_idx = 5
    /\ Len(all_anomalies) > 0
    /\ Len(anomaly_history.rows) > 0


(***************************************************************************)
(* Claims on a baseline mean of zero and on the zero-variance branch.      *)
(***************************************************************************)
\* C25: with a baseline mean of exactly 0 the call computes every key
\* without error; a mean or row_count key whose baseline has no variance
\* emits no Anomaly whatever today's value is, and an Anomaly of the
\* z-score branch reports the percent change 0.
ThmC25_ZeroBaselineMean ==
    \A k \in KeyIds :
        (Passed(k) /\ HasBaseline(k) /\ HistSum(Baseline(k)) = 0)
        => /\ (Flat(Baseline(k)) /\ KeyMetric(k) \in {"mean", "row_count"})
                 => Emitted(k) = <<>>
           /\ ~Flat(Baseline(k))
                 => \A i \in 1..Len(Emitted(k)) : Emitted(k)[i].pct_change = 0

\* a mean key whose history alternates -0.001 and 0.001 (mean 0) fires in
\* the z-score branch
WitC25_ZeroMeanFires ==
    \E k \in KeyIds :
        /\ InZBranch(k)
        /\ KeyMetric(k) = "mean"
        /\ HistSum(Baseline(k)) = 0
        /\ Today(k) # 0
        /\ Len(Emitted(k)) = 1

\* C30: in the zero-variance branch a std key emits no Anomaly whatever
\* today's value is, an Anomaly is emitted for a null_pct, mean or row_count
\* key only, and its severity is HIGH or CRITICAL.
ThmC30_ZeroVarianceKinds ==
    \A k \in KeyIds :
        InFlatBranch(k)
        => /\ KeyMetric(k) = "std" => Emitted(k) = <<>>
           /\ \A i \in 1..Len(Emitted(k)) :
                 /\ Emitted(k)[i].metric \in {"null_pct", "mean", "row_count"}
                 /\ Emitted(k)[i].severity \in {"HIGH", "CRITICAL"}

\* a std key with a flat baseline of 0.005 and today's value 0.055, and
\* nothing emitted
WitC30_StdFlatSilent ==
    \E k \in KeyIds :
        /\ InFlatBranch(k)
        /\ KeyMetric(k) = "std"
        /\ Baseline(k)[1] = 5
        /\ Today(k) = 55
        /\ anomalies = <<>>

(***************************************************************************)
(* run_slack_alerts.                                                       *)
(***************************************************************************)
SlackReturned ==
    /\ Len(calls) > 0
    /\ Entry = "run_slack_alerts"
    /\ run_pc = "returned"

\* the number N of reports in the reports file
StoredCount == IF reports_file.exists THEN Len(reports_file.reports) ELSE 0

\* C23: with the webhook configured, a finished run_slack_alerts has
\* attempted no POST when the reports file is absent or holds an empty
\* list, exactly one POST (the report) when it holds one report, and exactly
\* N + 1 POSTs when it holds N > 1 reports: the summary first, then one per
\* report in file order, whichever of the sends failed.
ThmC23_SlackPostCount ==
    (SlackReturned /\ webhook)
    => /\ StoredCount = 0 => posts = <<>>
       /\ StoredCount = 1
            => /\ Len(posts) = 1
               /\ posts[1].payload = format_report_alert(reports_file.reports[1])
       /\ StoredCount > 1
            => /\ Len(posts) = StoredCount + 1
               /\ posts[1].payload.kind = "summary"
               /\ posts[1].payload.issues = StoredCount
               /\ \A i \in 1..StoredCount :
                      posts[i + 1].payload = format_report_alert(reports_file.reports[i])

\* three reports, the summary and the first report fail, all four are sent
WitC23_FailedSendsGoOn ==
    /\ SlackReturned
    /\ webhook
    /\ StoredCount = 3
    /\ Len(posts) = 4
    /\ ~posts[1].ok
    /\ ~posts[2].ok
    /\ posts[4].ok

(***************************************************************************)
(* run_root_cause_analyzer and the full-pipeline trigger.                  *)
(***************************************************************************)
AnalyzerReturned ==
    /\ Len(calls) > 0
    /\ Entry = "run_root_cause_analyzer"
    /\ run_pc = "returned"

\* the drift events on a table that had no anomaly
DriftsWithoutAnomaly ==
    {i \in 1..Len(all_drifts) :
        \A j \in 1..Len(all_anomalies) : all_anomalies[j].table # all_drifts[i].table}

\* C26: run_root_cause_analyzer returns one report per anomaly and one
\* report for every schema drift event on a table that had no anomaly.
CexC26_ReportPerAnomalyAndDrift ==
    AnalyzerReturned
    => Len(reports) = Len(all_anomalies) + Cardinality(DriftsWithoutAnomaly)

\* C29: after a completed run of run_root_cause_analyzer the reports file
\* holds exactly the reports the run returned; after a run that detected
\* nothing it holds no report of an earlier run.
CexC29_ReportsFileIsLatestRun ==
    AnalyzerReturned => LoadedReports = reports

InPipeline == Len(calls) > 0 /\ Entry = "trigger_full_pipeline"

\* C28: in the full pipeline the schema monitor has completed when the
\* anomaly detector runs, both have completed when the explanations are
\* generated, and the Slack stage runs only with the reports of the run
\* saved and at least one report.
CexC28_StagesInOrder ==
    InPipeline
    => /\ run_pc \in {"a_connect", "a_loop"}
            => completed = <<"schema_monitor">>
       /\ run_pc = "explain"
            => completed = <<"schema_monitor", "anomaly_detector">>
       /\ run_pc \in {"k_open", "k_loop"}
            => /\ reports # <<>>
               /\ LoadedReports = reports

\* C21: a step never removes, reorders or changes a row either history
\* file holds: the rows before the step are a prefix of the rows after it.
CexC21_HistoryAppendOnly ==
    [][/\ IsPrefix(anomaly_history.rows, anomaly_history'.rows)
       /\ IsPrefix(schema_history.rows, schema_history'.rows)]_vars

(***************************************************************************)
(* The table status of the lineage views.                                  *)
(***************************************************************************)
ReportedTables == {load_json[i].table : i \in 1..Len(load_json)}

\* the highest severity among the reports of table t
HighestSeverity(t) ==
    CHOOSE sev \in {load_json[i].severity : i \in {j \in 1..Len(load_json) : load_json[j].table = t}} :
        \A i \in 1..Len(load_json) :
            load_json[i].table = t
            => PriorityIndex(load_json[i].severity) <= PriorityIndex(sev)

\* C27: get_anomalous_tables and /api/lineage compute the same map from the
\* reports file: every table with at least one report, and no other, with
\* the highest severity among its reports.
CexC27_SameStatusMap ==
    pc = "both_read"
    => /\ anomalous_tables = anomalous
       /\ DOMAIN anomalous_tables = ReportedTables
       /\ \A t \in ReportedTables : anomalous_tables[t] = HighestSeverity(t)

(***************************************************************************)
(* generate_row_count_tests.                                               *)
(***************************************************************************)
\* the points of the row-count history: none when it is absent
RowHistoryPoints ==
    IF NoRowCounts(table) THEN <<>> ELSE AsType(RowCountSeries(table))

\* C24: generate_row_count_tests returns no test when the row-count history
\* is absent or has fewer than 7 points, and else exactly one
\* row_count_between test whose min_rows is the whole part of 0.80 * mean
\* and whose max_rows is the whole part of 1.20 * mean as the float product
\* gives it (one less than the exact product where that is a whole number
\* and the mean is a rounded quotient), with min_rows <= max_rows.
ThmC24_RowCountTest ==
    pc = "generated"
    => LET n == Len(RowHistoryPoints)
           S == HistSum(RowHistoryPoints)
       IN  /\ n < 7 => tests = <<>>
           /\ n >= 7
                => /\ Len(tests) = 1
                   /\ tests[1].test_type = "row_count_between"
                   /\ LET lo == tests[1].parameters.min_rows
                          hi == tests[1].parameters.max_rows
                      IN  /\ 5 * n * lo <= 4 * S
                          /\ 4 * S < 5 * n * (lo + 1)
                          /\ 5 * n * hi <= 6 * S
                          /\ 6 * S <= 5 * n * (hi + 1)
                          /\ 6 * S = 5 * n * (hi + 1) => ~ExactMean(S, n)
                          /\ lo <= hi

\* seven days of 10 rows: one test, between 8 and 12 rows
WitC24_SevenDaysOfTen ==
    /\ pc = "generated"
    /\ RowHistoryPoints = <<10, 10, 10, 10, 10, 10, 10>>
    /\ Len(tests) = 1
    /\ tests[1].parameters = [min_rows |-> 8, max_rows |-> 12]

(***************************************************************************)
(* Concurrent saves.                                                       *)
(***************************************************************************)
\* how often the history file of run r holds the i-th record of r
TimesHeld(r, i) ==
    Cardinality({j \in 1..Len(HistoryOf(savers[r].entry).rows) :
                    HistoryOf(savers[r].entry).rows[j]
                        = Written(savers[r].new[i], NameField(savers[r].entry))})

HoldsOnce(r) == \A i \in 1..Len(savers[r].new) : TimesHeld(r, i) = 1

\* C22: a run whose save step was never in flight together with the save
\* step of another run on the same file has, once it is done, every one of
\* its records in the history exactly once, whatever the other runs do.
ThmC22_SerializedSaveKeepsRecords ==
    \A r \in DOMAIN savers :
        (savers[r].pc = "done" /\ ~savers[r].overlapped) => HoldsOnce(r)

\* two runs of the same entry point have both read the file before either
\* wrote it; both are done and the records of one of them are lost
WitC22_LostUpdate ==
    \E r, q \in DOMAIN savers :
        /\ r # q
        /\ savers[r].entry = savers[q].entry
        /\ savers[r].pc = "done"
        /\ savers[q].pc = "done"
        /\ savers[r].overlapped
        /\ savers[q].overlapped
        /\ savers[r].new # <<>>
        /\ HoldsOnce(q)
        /\ \A i \in 1..Len(savers[r].new) : TimesHeld(r, i) = 0

====
